---------------------------- MODULE Spec2Model ----------------------------
(***************************************************************************)
(* LazySSH: the Manager event loop (package manager), the channel          *)
(* connector (connectChannel) and the provider run loops (aws_ec2, hcloud, *)
(* virtualbox msgLoop; forward RunMachine), as one state machine.          *)
(*                                                                         *)
(* Go channels without a buffer are rendezvous: a send and the matching    *)
(* receive are one step, named after the receiving select branch.  The     *)
(* Translate request and its reply are two back-to-back rendezvous between *)
(* the same two goroutines (neither can do anything else in between); they *)
(* are one step here.                                                      *)
(***************************************************************************)
EXTENDS Integers, Sequences, FiniteSets, TLC

(***************************************************************************)
(* Bounds of the model.                                                    *)
(***************************************************************************)
MaxChannels == 2

MaxStopCallers == 2

MaxCounted == 130

MaxData == 2

\* Longest text of a 'linger' option.
MaxText == 3

Channels == 1..MaxChannels

MachIds == 1..MaxChannels

StopCallers == 1..MaxStopCallers

(***************************************************************************)
(* Configurations: the Providers index handed to NewManager, one entry per *)
(* target block.  "vm" is a provisioning provider with shared = true,      *)
(* "solo" one with shared = false, "fwd" the forward provider.             *)
(***************************************************************************)
Targets == {"vm", "solo", "fwd"}

\* Linger is prov.Linger, here the default  linger = "0s".  The model has no
\* clock: a timer of any duration may fire at any step after it was set, and
\* one of duration zero is ready at once.
AwsShared == [kind |-> "aws_ec2", Shared |-> TRUE, Linger |-> 0]

AwsUnshared == [kind |-> "aws_ec2", Shared |-> FALSE, Linger |-> 0]

Forward == [kind |-> "forward", Shared |-> TRUE, To |-> "example.com"]

ConfigVm == [t \in {"vm"} |-> AwsShared]

ConfigSolo == [t \in {"solo"} |-> AwsUnshared]

ConfigFwd == [t \in {"fwd"} |-> Forward]

ConfigBoth == [t \in {"vm", "solo"} |-> IF t = "vm" THEN AwsShared ELSE AwsUnshared]

\* The RemotePort values (uint32) of the opens: one that fits 16 bits and,
\* where a provider formats its reply from the port, one that does not.
RemotePorts(provs) ==
  IF \E t \in DOMAIN provs : provs[t].kind = "forward" THEN {22, 65558} ELSE {22}

\* What a channel-open event carries: ChannelType(), whether ExtraData()
\* unmarshals into channelOpenDirectMsg, and the RemoteAddr (a configured
\* target or another address) and RemotePort it then holds.
ChannelOpens(provs) ==
  { [ctype |-> t, parses |-> TRUE, RemoteAddr |-> a, RemotePort |-> p] :
        t \in {"direct-tcpip", "session"}, a \in (DOMAIN provs) \cup {"nosuch"},
        p \in RemotePorts(provs) }
  \cup { [ctype |-> t, parses |-> FALSE, RemoteAddr |-> "", RemotePort |-> 0] :
        t \in {"direct-tcpip", "session"} }

\* The streams of a channel and its two copy goroutines before anything was
\* sent: chunks the client wrote into the SSH channel and whether it has
\* closed its write side, chunks goroutine A copied to the TCP connection,
\* the same for the remote end and goroutine B, and which sides are closed.
NoCopy ==
  [cliSent |-> 0, cliEof |-> FALSE, upCopied |-> 0, aDone |-> FALSE,
   remSent |-> 0, remEof |-> FALSE, downCopied |-> 0, bDone |-> FALSE,
   tcpW |-> "open", tcpR |-> "open", chW |-> "open", chClosed |-> FALSE]

NoInput == [ctype |-> "", parses |-> FALSE, RemoteAddr |-> "", RemotePort |-> 0]

\* What connectChannel still needs of the event it was started with.
HeldInput(in) == [NoInput EXCEPT !.RemotePort = in.RemotePort]

VARIABLES
  providers,      \* Manager.providers
  mgrPc,          \* event loop goroutine: "loop", "reply", "done"
  stoppingCh,     \* the reply channels of the stop requests received
  machines,       \* Manager.machines
  sharedMachines, \* Manager.sharedMachines (0 is nil)
  nextMach,       \* number of machine structs allocated so far
  mTarget,        \* machine.target
  mShared,        \* machine.shared
  mPc,            \* position of the machine's run goroutine / drain goroutine
  active,         \* msgLoop's local counter (int8)
  stopBuf,        \* number of values in Machine.Stop (capacity 1)
  exitBy,         \* how the run loop left its message loop
  counted,        \* +1s minus -1s the run loop received, as a true integer
  instance,       \* the backing resource of the machine: "none", "live", "gone"
  stops,          \* number of times RunMachine called prov.stop
  chPc,           \* position of the channel's submitter / connector
  chIn,           \* the channel-open event
  chLate,         \* NewChannel was called after a Stop() had returned
  chMach,         \* machine the connector is bound to (0: none)
  answer,         \* outcome delivered on the SSH channel
  reply,          \* what came back on TranslateMsg.Reply
  incAt,          \* which select received the +1 of a running connector
  io,             \* the two copy goroutines of an accepted channel and its streams
  stopPc,         \* position of each Stop() caller
  parsed,         \* NewProvider: the decoded target block (hclTarget)
  cfgProv,        \* NewProvider: the Provider it builds
  diags,          \* NewProvider: the diagnostics it returns
  lingerTimer,    \* msgLoop: the argument of the linger select's time.After
  cfgPc           \* "decoded", "built", "lingering"; "run" once the Manager runs

vars ==
  << providers, mgrPc, stoppingCh, machines, sharedMachines, nextMach, mTarget, mShared,
     mPc, active, stopBuf, exitBy, counted, instance, stops, chPc, chIn, chLate, chMach,
     answer, reply, incAt, io, stopPc, parsed, cfgProv, diags, lingerTimer, cfgPc >>

cfgVars == << parsed, cfgProv, diags, lingerTimer, cfgPc >>

mgrVars == << providers, cfgVars, mgrPc, stoppingCh, machines, sharedMachines, nextMach >>

machVars ==
  << mTarget, mShared, mPc, active, stopBuf, exitBy, counted, instance, stops >>

chanVars == << chPc, chIn, chLate, chMach, answer, reply, incAt, io >>

(***************************************************************************)
(* Helpers.                                                                *)
(***************************************************************************)
\* Go's conversion uint16(x) of a uint32.
Uint16(x) == x % 65536

\* Go's int8 arithmetic wraps.
Int8(x) == ((x + 128) % 256) - 128

\* The SSH rejection reason code that goes with each message.
RejectCode(msg) ==
  CASE msg = "this server is shutting down"     -> "Prohibited"
    [] msg = "unsuported channel type"          -> "UnknownChannelType"
    [] msg = "invalid direct-tcpip parameters"  -> "Prohibited"
    [] msg = "unknown remote address"           -> "ConnectionFailed"
    [] msg = "service not available"            -> "ConnectionFailed"
    [] msg = "dial error"                       -> "ConnectionFailed"
    [] OTHER                                    -> "none"

\* (a provider that always reports shared)
AlwaysShared(prov) == TRUE

IsShared(prov) ==
  IF prov.kind \in {"forward", "virtualbox"} THEN TRUE ELSE prov.Shared

\* The state NewManager(provs) leaves, before any call.
InitWith(provs) ==
  /\ providers = provs
  /\ mgrPc = "loop"
  /\ stoppingCh = << >>
  /\ machines = {}
  /\ sharedMachines = [t \in Targets |-> 0]
  /\ nextMach = 0
  /\ mTarget = [m \in MachIds |-> ""]
  /\ mShared = [m \in MachIds |-> FALSE]
  /\ mPc = [m \in MachIds |-> "none"]
  /\ active = [m \in MachIds |-> 0]
  /\ stopBuf = [m \in MachIds |-> 0]
  /\ exitBy = [m \in MachIds |-> "none"]
  /\ counted = [m \in MachIds |-> 0]
  /\ instance = [m \in MachIds |-> "none"]
  /\ stops = [m \in MachIds |-> 0]
  /\ chPc = [c \in Channels |-> "idle"]
  /\ chIn = [c \in Channels |-> NoInput]
  /\ chLate = [c \in Channels |-> FALSE]
  /\ chMach = [c \in Channels |-> 0]
  /\ answer = [c \in Channels |-> "none"]
  /\ reply = [c \in Channels |-> "none"]
  /\ incAt = [c \in Channels |-> "none"]
  /\ io = [c \in Channels |-> NoCopy]
  /\ stopPc = [s \in StopCallers |-> "idle"]


(***************************************************************************)
(* Callers of the Manager's public methods.                                *)
(***************************************************************************)
\* Manager.NewChannel: the caller blocks in  mgr.newChannel <- newChan.
\* Channel ids are handed out in the order of the calls.
NewChannel(c) ==
  /\ chPc[c] = "idle"
  /\ \A d \in Channels : d < c => chPc[d] # "idle"
  /\ \E in \in ChannelOpens(providers) : chIn' = [chIn EXCEPT ![c] = in]
  /\ chPc' = [chPc EXCEPT ![c] = "submitted"]
  /\ chLate' = [chLate EXCEPT ![c] = \E s \in StopCallers : stopPc[s] = "returned"]
  /\ UNCHANGED << mgrVars, machVars, chMach, answer, reply, incAt, io, stopPc >>

\* Manager.Stop: make replyCh, then block in  mgr.stop <- replyCh.
StopCall(s) ==
  /\ stopPc[s] = "idle"
  /\ \A r \in StopCallers : r < s => stopPc[r] # "idle"
  /\ stopPc' = [stopPc EXCEPT ![s] = "send"]
  /\ UNCHANGED << mgrVars, machVars, chanVars >>

(***************************************************************************)
(* The Manager goroutine started by NewManager.                            *)
(***************************************************************************)
\* (a loop that stops as soon as a stop request is in, machines or not)
LoopIgnoresMachines(stCh, machs) == stCh = << >>

\* The loop condition  stoppingCh == nil || len(mgr.machines) > 0.
LoopRunning(stCh, machs) == stCh = << >> \/ machs # {}

\* Where the goroutine is after a select branch has run.
AfterEvent(stCh, machs) ==
  IF LoopRunning(stCh, machs) THEN "loop"
  ELSE IF stCh = << >> THEN "done" ELSE "reply"

\* (a Reject after which the event is handed to a connector all the same)
RejectAndConnect(c, msg) ==
  /\ answer' = [answer EXCEPT ![c] = msg]
  /\ chPc' = [chPc EXCEPT ![c] = "inc"]

\* newChan.Reject(reason, message)
Reject(c, msg) ==
  /\ answer' = [answer EXCEPT ![c] = msg]
  /\ chPc' = [chPc EXCEPT ![c] = "done"]

\* (a lookup that never finds the shared machine)
NeverShared(prov, addr) == 0

\* "Try for a shared machine": the machine handleNewChannel reuses, 0 (nil)
\* when it has to start a new one.
LookupShared(prov, addr) ==
  IF IsShared(prov) THEN sharedMachines[addr] ELSE 0

\* (a StartMachine whose channel open is not handed to a connector of the
\* new machine)
StartUnbound(c, prov, addr) ==
  LET m == nextMach + 1 IN
  /\ nextMach' = m
  /\ mTarget' = [mTarget EXCEPT ![m] = addr]
  /\ mPc' = [mPc EXCEPT ![m] = IF prov.kind = "forward" THEN "forward" ELSE "start"]
  /\ machines' = machines \cup {m}
  /\ mShared' = [mShared EXCEPT ![m] = IsShared(prov)]
  /\ sharedMachines' =
       IF IsShared(prov) THEN [sharedMachines EXCEPT ![addr] = m]
       ELSE sharedMachines
  /\ chMach' = [chMach EXCEPT ![c] = 0]

\* (a StartMachine that enters every new machine in the shared map)
StartAlwaysMapped(c, prov, addr) ==
  LET m == nextMach + 1 IN
  /\ nextMach' = m
  /\ mTarget' = [mTarget EXCEPT ![m] = addr]
  /\ mPc' = [mPc EXCEPT ![m] = IF prov.kind = "forward" THEN "forward" ELSE "start"]
  /\ machines' = machines \cup {m}
  /\ mShared' = [mShared EXCEPT ![m] = IsShared(prov)]
  /\ sharedMachines' = [sharedMachines EXCEPT ![addr] = m]
  /\ chMach' = [chMach EXCEPT ![c] = m]

\* The new machine struct, its run goroutine and its registration.
StartMachine(c, prov, addr) ==
  LET m == nextMach + 1 IN
  /\ nextMach' = m
  /\ mTarget' = [mTarget EXCEPT ![m] = addr]
  /\ mPc' = [mPc EXCEPT ![m] = IF prov.kind = "forward" THEN "forward" ELSE "start"]
  /\ machines' = machines \cup {m}
  /\ mShared' = [mShared EXCEPT ![m] = IsShared(prov)]
  /\ sharedMachines' =
       IF IsShared(prov) THEN [sharedMachines EXCEPT ![addr] = m]
       ELSE sharedMachines
  /\ chMach' = [chMach EXCEPT ![c] = m]

\* (a handleNewChannel without the channel type check)
TypeUnchecked(c) ==
  LET in == chIn[c] IN
  IF ~in.parses \/ in.RemoteAddr \notin DOMAIN providers THEN
    /\ Reject(c, IF ~in.parses THEN "invalid direct-tcpip parameters"
                 ELSE "unknown remote address")
    /\ UNCHANGED << machines, sharedMachines, nextMach, mTarget, mShared, mPc, chMach >>
  ELSE
    LET prov == providers[in.RemoteAddr]
        mach == LookupShared(prov, in.RemoteAddr)
    IN /\ IF mach = 0
          THEN StartMachine(c, prov, in.RemoteAddr)
          ELSE /\ chMach' = [chMach EXCEPT ![c] = mach]
               /\ UNCHANGED << machines, sharedMachines, nextMach, mTarget,
                               mShared, mPc >>
       /\ chPc' = [chPc EXCEPT ![c] = "inc"]
       /\ UNCHANGED answer

\* Manager.handleNewChannel
handleNewChannel(c) ==
  LET in == chIn[c] IN
  IF in.ctype # "direct-tcpip" THEN
    /\ Reject(c, "unsuported channel type")
    /\ UNCHANGED << machines, sharedMachines, nextMach, mTarget, mShared, mPc, chMach >>
  ELSE IF ~in.parses THEN
    /\ Reject(c, "invalid direct-tcpip parameters")
    /\ UNCHANGED << machines, sharedMachines, nextMach, mTarget, mShared, mPc, chMach >>
  ELSE IF in.RemoteAddr \notin DOMAIN providers THEN
    /\ Reject(c, "unknown remote address")
    /\ UNCHANGED << machines, sharedMachines, nextMach, mTarget, mShared, mPc, chMach >>
  ELSE
    LET prov == providers[in.RemoteAddr]
        mach == LookupShared(prov, in.RemoteAddr)
    IN /\ IF mach = 0
          THEN StartMachine(c, prov, in.RemoteAddr)
          ELSE /\ chMach' = [chMach EXCEPT ![c] = mach]
               /\ UNCHANGED << machines, sharedMachines, nextMach, mTarget,
                               mShared, mPc >>
       \* go connectChannel(newChan, mach, input)
       /\ chPc' = [chPc EXCEPT ![c] = "inc"]
       /\ UNCHANGED answer

\* (a newChannel branch that dispatches whether stopping or not)
AcceptWhileStopping(c) == handleNewChannel(c)

\* What the newChannel branch does with an event once a stop request was
\* received.
RejectShuttingDown(c) ==
  /\ Reject(c, "this server is shutting down")
  /\ UNCHANGED << machines, sharedMachines, nextMach, mTarget, mShared, mPc, chMach >>

\* case newChan := <-mgr.newChannel   (callers blocked on the same channel are
\* served in the order they arrived, which is the order of the ids)
MgrNewChannel(c) ==
  /\ mgrPc = "loop"
  /\ chPc[c] = "submitted"
  /\ \A d \in Channels : d < c => chPc[d] # "submitted"
  /\ IF stoppingCh = << >> THEN handleNewChannel(c) ELSE RejectShuttingDown(c)
  /\ chIn' = [chIn EXCEPT ![c] = IF chPc'[c] = "inc" THEN HeldInput(@) ELSE NoInput]
  /\ mgrPc' = AfterEvent(stoppingCh, machines')
  /\ UNCHANGED << providers, cfgVars, stoppingCh, active, stopBuf, exitBy, counted, instance,
                  stops, chLate, io, reply, incAt, stopPc >>

\* (a handleMachineStopped that starts no drain goroutine)
NoDrain(m) ==
  /\ machines' = machines \ {m}
  /\ sharedMachines' =
       IF mShared[m] THEN [sharedMachines EXCEPT ![mTarget[m]] = 0]
       ELSE sharedMachines
  /\ mPc' = [mPc EXCEPT ![m] = "dead"]
  /\ exitBy' = [exitBy EXCEPT ![m] = "none"]

\* (a handleMachineStopped that leaves the shared entry in place)
KeepSharedEntry(m) ==
  /\ machines' = machines \ {m}
  /\ sharedMachines' = sharedMachines
  /\ mPc' = [mPc EXCEPT ![m] = "drain"]
  /\ exitBy' = [exitBy EXCEPT ![m] = "none"]

\* Manager.handleMachineStopped: the registry deletes and the drain goroutine.
handleMachineStopped(m) ==
  /\ machines' = machines \ {m}
  /\ sharedMachines' =
       IF mShared[m] THEN [sharedMachines EXCEPT ![mTarget[m]] = 0]
       ELSE sharedMachines
  /\ mPc' = [mPc EXCEPT ![m] = "drain"]
  /\ exitBy' = [exitBy EXCEPT ![m] = "none"]

\* case mach := <-mgr.machStopped   (the sender is the goroutine that ran
\* RunMachine, blocked in  mgr.machStopped <- mach)
MgrMachStopped(m) ==
  /\ mgrPc = "loop"
  /\ mPc[m] = "returned"
  /\ handleMachineStopped(m)
  /\ mgrPc' = AfterEvent(stoppingCh, machines')
  /\ UNCHANGED << providers, cfgVars, stoppingCh, nextMach, mTarget, mShared, active, stopBuf,
                  counted, chanVars, stopPc, instance, stops >>

\* (a broadcast made on every stop request)
BroadcastEvery(stCh) ==
  [m \in MachIds |-> IF m \in machines THEN stopBuf[m] + 1 ELSE stopBuf[m]]

\* The Stop channels after the first stop request:  mach.Stop <- struct{}{}
\* for every machine in mgr.machines.
BroadcastStop(stCh) ==
  IF stCh = << >>
  THEN [m \in MachIds |-> IF m \in machines THEN stopBuf[m] + 1 ELSE stopBuf[m]]
  ELSE stopBuf

\* case replyCh := <-mgr.stop   (callers served in the order they arrived)
MgrStop(s) ==
  /\ mgrPc = "loop"
  /\ stopPc[s] = "send"
  /\ \A r \in StopCallers : r < s => stopPc[r] # "send"
  /\ \A m \in machines : stoppingCh = << >> => stopBuf[m] < 1
  /\ stopBuf' = BroadcastStop(stoppingCh)
  /\ stoppingCh' = Append(stoppingCh, s)
  /\ stopPc' = [stopPc EXCEPT ![s] = "wait"]
  /\ mgrPc' = AfterEvent(stoppingCh', machines)
  /\ UNCHANGED << providers, cfgVars, machines, sharedMachines, nextMach, mTarget, mShared, mPc,
                  active, exitBy, counted, chanVars, instance, stops >>

\* for _, ch := range stoppingCh { ch <- struct{}{} }   each send meets the
\* caller's  <-replyCh.  The slice is walked in order: the next reply goes to
\* the first caller in it that is still waiting.
NextReply ==
  LET waiting == {i \in 1..Len(stoppingCh) : stopPc[stoppingCh[i]] = "wait"}
  IN IF waiting = {} THEN 0
     ELSE stoppingCh[CHOOSE i \in waiting : \A j \in waiting : i <= j]

MgrReply ==
  /\ mgrPc = "reply"
  /\ NextReply # 0
  /\ stopPc' = [stopPc EXCEPT ![NextReply] = "returned"]
  /\ mgrPc' = IF \E i \in 1..Len(stoppingCh) : stopPc'[stoppingCh[i]] = "wait"
              THEN "reply" ELSE "done"
  /\ UNCHANGED << providers, cfgVars, stoppingCh, machines, sharedMachines, nextMach, machVars, chanVars >>

(***************************************************************************)
(* connectChannel, one goroutine per accepted channel open.                *)
(***************************************************************************)
\* The value a connector blocked on  mach.ModActive <- ...  is sending:
\* incActive at the start, the deferred decActive at the end.
Sending(c) == IF chPc[c] = "inc" THEN 1 ELSE -1

SendsMod(c, m) == chMach[c] = m /\ chPc[c] \in {"inc", "dec"}

\* The connector once its ModActive send has been received by `who`: after
\* incActive it goes on to the Translate request, after decActive the
\* goroutine has ended (its locals are gone).
ModSent(c, who) ==
  /\ chPc' = [chPc EXCEPT ![c] = IF chPc[c] = "inc" THEN "translate" ELSE "done"]
  /\ incAt' = [incAt EXCEPT ![c] = IF chPc[c] = "inc" THEN who ELSE "none"]
  /\ reply' = [reply EXCEPT ![c] = "none"]
  /\ chMach' = [chMach EXCEPT ![c] = IF chPc[c] = "inc" THEN @ ELSE 0]

\* (a connector that returns on the empty reply without its decActive)
SkipDecAfterEmptyReply == "done"

\* Where connectChannel goes after  addr := <-msg.Reply  gave the empty
\* string: Reject, return, and the deferred decActive.
AfterEmptyReply == "dec"

\* msg.Port of the connector's Translate request.
MsgPort(c) == Uint16(chIn[c].RemotePort)

\* mach.Translate <- msg; addr := <-msg.Reply
Translated(c, addr) ==
  /\ reply' = [reply EXCEPT ![c] = addr]
  /\ chIn' = [chIn EXCEPT ![c] = NoInput]
  /\ IF addr = ""
     THEN /\ answer' = [answer EXCEPT ![c] = "service not available"]
          /\ chPc' = [chPc EXCEPT ![c] = AfterEmptyReply]
     ELSE /\ chPc' = [chPc EXCEPT ![c] = "dial"]
          /\ UNCHANGED answer

\* (a connector that returns on a dial error without rejecting the channel)
DialErrorSilent(c) ==
  /\ chPc[c] = "dial"
  /\ \/ /\ chPc' = [chPc EXCEPT ![c] = "dec"]
        /\ UNCHANGED answer
     \/ /\ chPc' = [chPc EXCEPT ![c] = "accept"]
        /\ UNCHANGED answer
  /\ UNCHANGED << mgrVars, machVars, chIn, chLate, io, chMach, reply, incAt, stopPc >>

\* conn, err := net.Dial("tcp", addr)
ConnDial(c) ==
  /\ chPc[c] = "dial"
  /\ \/ /\ answer' = [answer EXCEPT ![c] = "dial error"]
        /\ chPc' = [chPc EXCEPT ![c] = "dec"]
     \/ /\ chPc' = [chPc EXCEPT ![c] = "accept"]
        /\ UNCHANGED answer
  /\ UNCHANGED << mgrVars, machVars, chIn, chLate, io, chMach, reply, incAt, stopPc >>

\* ch, reqs, err := newChan.Accept()
ConnAccept(c) ==
  /\ chPc[c] = "accept"
  /\ \/ /\ answer' = [answer EXCEPT ![c] = "accept error"]
        /\ chPc' = [chPc EXCEPT ![c] = "dec"]
     \/ /\ answer' = [answer EXCEPT ![c] = "accepted"]
        /\ chPc' = [chPc EXCEPT ![c] = "copy"]
  /\ UNCHANGED << mgrVars, machVars, chIn, chLate, io, chMach, reply, incAt, stopPc >>

\* wg.Wait() returns: both copies ended; ch.Close(), then decActive.
ConnCopyEnd(c) ==
  /\ chPc[c] = "copy"
  /\ chPc' = [chPc EXCEPT ![c] = "dec"]
  /\ UNCHANGED << mgrVars, machVars, chIn, chLate, io, chMach, answer, reply, incAt,
                  stopPc >>

(***************************************************************************)
(* Provider.RunMachine of the provisioning providers (aws_ec2, hcloud,     *)
(* virtualbox): start, connectivityTest, msgLoop, stop.                    *)
(***************************************************************************)
\* How prov.start(mach) can end: RunInstances fails; the instance was
\* created but a status poll fails, the instance disappears or is left in an
\* unexpected state; the instance runs but AttachVolume fails; the instance
\* runs.
StartOutcomes == {"run error", "poll error", "attach error", "running"}

\* (a start whose ok result is true whatever happened)
AlwaysOk(out) == TRUE

\* start's results (ok, err) and whether RunInstances had created an instance.
StartOk(out) == out = "running"

IsAttachVolumeErr(out) == out = "attach error"

Created(out) == out # "run error"

\* RunMachine's  if ok { ... }: on to the connectivity test, or return.
AfterErrCheck(out) == IF StartOk(out) THEN "probe" ELSE "returned"

\* RunMachine after start: first the stop on the attach-volume error (the
\* only error start returns), then the  if ok  block.
AfterStart(out) ==
  IF IsAttachVolumeErr(out) THEN "errstop" ELSE AfterErrCheck(out)

\* prov.start(mach): the external calls return.
ProvStart(m) ==
  /\ mPc[m] = "start"
  /\ \E out \in StartOutcomes :
       /\ instance' = [instance EXCEPT ![m] = IF Created(out) THEN "live" ELSE "none"]
       /\ mPc' = [mPc EXCEPT ![m] = AfterStart(out)]
       /\ exitBy' = IF StartOk(out) THEN exitBy ELSE [exitBy EXCEPT ![m] = "start failed"]
  /\ UNCHANGED << mgrVars, mTarget, mShared, active, stopBuf, counted, stops, chanVars, stopPc >>

\* RunMachine's  prov.stop(mach)  on the attach-volume error, followed by the
\* if ok  block with the ok that start returned with that error.
ProvErrStop(m) ==
  /\ mPc[m] = "errstop"
  /\ instance' = [instance EXCEPT ![m] = "gone"]
  /\ stops' = [stops EXCEPT ![m] = @ + 1]
  /\ mPc' = [mPc EXCEPT ![m] = AfterErrCheck("attach error")]
  /\ UNCHANGED << mgrVars, mTarget, mShared, active, stopBuf, exitBy, counted,
                  chanVars, stopPc >>

\* (a RunMachine that enters msgLoop whatever the connectivity test returned)
ProbeIgnored(m) ==
  /\ mPc[m] = "probe"
  /\ mPc' = [mPc EXCEPT ![m] = "boot"]
  /\ \/ UNCHANGED exitBy
     \/ exitBy' = [exitBy EXCEPT ![m] = "probe failed"]
  /\ UNCHANGED << mgrVars, mTarget, mShared, active, stopBuf, counted, chanVars, stopPc, instance, stops >>

\* prov.connectivityTest(mach)
ProvProbe(m) ==
  /\ mPc[m] = "probe"
  /\ \/ mPc' = [mPc EXCEPT ![m] = "boot"] /\ UNCHANGED exitBy
     \/ /\ mPc' = [mPc EXCEPT ![m] = "teardown"]
        /\ exitBy' = [exitBy EXCEPT ![m] = "probe failed"]
  /\ UNCHANGED << mgrVars, mTarget, mShared, active, stopBuf, counted, chanVars, stopPc, instance, stops >>

\* active += mod
AddActive(a, mod) == Int8(a + mod)

\* for active > 0 { for active > 0 { select ... } linger select }: where the
\* loop is after the first receive, after a receive in the service select and
\* after a receive in the linger select.
AfterBoot(a) == IF a > 0 THEN "service" ELSE "teardown"

\* (a service loop that takes a counter of zero as the end of the machine)
ZeroIsFinal(a) == IF a > 0 THEN "service" ELSE "teardown"

AfterServiceMod(a) == IF a > 0 THEN "service" ELSE "linger"

\* (a linger select that leaves the loop whatever it received)
LingerIgnoresMod(a) == "teardown"

AfterLingerMod(a) == IF a > 0 THEN "service" ELSE "teardown"

\* msgLoop's local counter after a step that leaves the loop at `pc`: once
\* msgLoop has returned the variable is gone.
Local(pc, a) == IF pc = "teardown" THEN 0 ELSE a

\* The address msgLoop sends on msg.Reply.
ResolvedAddr(m) == "host:port"

\* active := <-mach.ModActive
ProvBoot(m, c) ==
  /\ mPc[m] = "boot"
  /\ SendsMod(c, m)
  /\ mPc' = [mPc EXCEPT ![m] = AfterBoot(Sending(c))]
  /\ active' = [active EXCEPT ![m] = Local(mPc'[m], Sending(c))]
  /\ counted' = [counted EXCEPT ![m] = Local(mPc'[m], @ + Sending(c))]
  /\ exitBy' = IF mPc'[m] = "teardown" THEN [exitBy EXCEPT ![m] = "count"] ELSE exitBy
  /\ ModSent(c, "run")
  /\ UNCHANGED << mgrVars, mTarget, mShared, stopBuf, chIn, chLate, io,
                  answer, stopPc, instance, stops >>

\* service select, case mod := <-mach.ModActive
ProvServiceMod(m, c) ==
  /\ mPc[m] = "service"
  /\ SendsMod(c, m)
  /\ active' = [active EXCEPT ![m] = AddActive(@, Sending(c))]
  /\ counted' = [counted EXCEPT ![m] = @ + Sending(c)]
  /\ mPc' = [mPc EXCEPT ![m] = AfterServiceMod(active'[m])]
  /\ ModSent(c, "run")
  /\ UNCHANGED << mgrVars, mTarget, mShared, stopBuf, exitBy, chIn, chLate, io,
                  answer, stopPc, instance, stops >>

\* service select, case msg := <-mach.Translate
ProvServiceTranslate(m, c) ==
  /\ mPc[m] = "service"
  /\ chMach[c] = m /\ chPc[c] = "translate"
  /\ Translated(c, ResolvedAddr(m))
  /\ UNCHANGED << mgrVars, machVars, chLate, io, chMach, incAt, stopPc >>

\* (a Stop branch that keeps serving while the counter is positive)
StopHonoursCounter(m) ==
  /\ mPc[m] = "service"
  /\ stopBuf[m] > 0
  /\ stopBuf' = [stopBuf EXCEPT ![m] = @ - 1]
  /\ IF active[m] > 0
     THEN UNCHANGED << mPc, exitBy, active, counted >>
     ELSE /\ mPc' = [mPc EXCEPT ![m] = "teardown"]
          /\ exitBy' = [exitBy EXCEPT ![m] = "stop"]
          /\ active' = [active EXCEPT ![m] = 0]
          /\ counted' = [counted EXCEPT ![m] = 0]
  /\ UNCHANGED << mgrVars, mTarget, mShared, chanVars, stopPc, instance, stops >>

\* service select, case <-mach.Stop: return
ProvServiceStop(m) ==
  /\ mPc[m] = "service"
  /\ stopBuf[m] > 0
  /\ stopBuf' = [stopBuf EXCEPT ![m] = @ - 1]
  /\ mPc' = [mPc EXCEPT ![m] = "teardown"]
  /\ exitBy' = [exitBy EXCEPT ![m] = "stop"]
  /\ active' = [active EXCEPT ![m] = 0]
  /\ counted' = [counted EXCEPT ![m] = 0]
  /\ UNCHANGED << mgrVars, mTarget, mShared, chanVars, stopPc, instance, stops >>

\* linger select, case mod := <-mach.ModActive
ProvLingerMod(m, c) ==
  /\ mPc[m] = "linger"
  /\ SendsMod(c, m)
  /\ mPc' = [mPc EXCEPT ![m] = AfterLingerMod(AddActive(active[m], Sending(c)))]
  /\ active' = [active EXCEPT ![m] = Local(mPc'[m], AddActive(@, Sending(c)))]
  /\ counted' = [counted EXCEPT ![m] = Local(mPc'[m], @ + Sending(c))]
  /\ exitBy' = IF mPc'[m] = "teardown" THEN [exitBy EXCEPT ![m] = "count"] ELSE exitBy
  /\ ModSent(c, "linger")
  /\ UNCHANGED << mgrVars, mTarget, mShared, stopBuf, chIn, chLate, io,
                  answer, stopPc, instance, stops >>

\* linger select, case <-time.After(prov.Linger): return
ProvLingerTimer(m) ==
  /\ mPc[m] = "linger"
  /\ mPc' = [mPc EXCEPT ![m] = "teardown"]
  /\ exitBy' = [exitBy EXCEPT ![m] = "timer"]
  /\ active' = [active EXCEPT ![m] = 0]
  /\ counted' = [counted EXCEPT ![m] = 0]
  /\ UNCHANGED << mgrVars, mTarget, mShared, stopBuf, chanVars, stopPc, instance, stops >>

\* prov.stop(mach), then RunMachine returns and the goroutine blocks in
\* mgr.machStopped <- mach.
ProvTeardown(m) ==
  /\ mPc[m] = "teardown"
  /\ mPc' = [mPc EXCEPT ![m] = "returned"]
  /\ instance' = [instance EXCEPT ![m] = "gone"]
  /\ stops' = [stops EXCEPT ![m] = @ + 1]
  /\ UNCHANGED << mgrVars, mTarget, mShared, active, stopBuf, exitBy, counted,
                  chanVars, stopPc >>

(***************************************************************************)
(* Provider.RunMachine of the forward provider.                            *)
(***************************************************************************)
\* fmt.Sprintf("%s:%d", prov.To, msg.Port)
FwdAddr(prov, port) == prov.To \o ":" \o ToString(port)

\* (a forward loop that returns on a ModActive message)
FwdReturnsOnMod(m, c) ==
  /\ mPc[m] = "forward"
  /\ SendsMod(c, m)
  /\ ModSent(c, "run")
  /\ mPc' = [mPc EXCEPT ![m] = "returned"]
  /\ UNCHANGED << mgrVars, mTarget, mShared, active, stopBuf, exitBy, counted,
                  instance, stops, chIn, chLate, io, answer, stopPc >>

\* case <-mach.ModActive: continue
FwdMod(m, c) ==
  /\ mPc[m] = "forward"
  /\ SendsMod(c, m)
  /\ ModSent(c, "run")
  /\ UNCHANGED << mgrVars, machVars, chIn, chLate, io, answer, stopPc >>

\* case msg := <-mach.Translate
FwdTranslate(m, c) ==
  /\ mPc[m] = "forward"
  /\ chMach[c] = m /\ chPc[c] = "translate"
  /\ Translated(c, FwdAddr(providers[mTarget[m]], MsgPort(c)))
  /\ UNCHANGED << mgrVars, machVars, chLate, io, chMach, incAt, stopPc >>

\* case <-mach.Stop: return
FwdStop(m) ==
  /\ mPc[m] = "forward"
  /\ stopBuf[m] > 0
  /\ stopBuf' = [stopBuf EXCEPT ![m] = @ - 1]
  /\ mPc' = [mPc EXCEPT ![m] = "returned"]
  /\ exitBy' = [exitBy EXCEPT ![m] = "stop"]
  /\ UNCHANGED << mgrVars, mTarget, mShared, active, counted, chanVars, stopPc, instance, stops >>

\* (a drain goroutine that is already receiving while the run loop serves)
DrainWhileServing(m, c) ==
  /\ mPc[m] \in {"drain", "service"}
  /\ SendsMod(c, m)
  /\ ModSent(c, "drain")
  /\ UNCHANGED << mgrVars, machVars, chIn, chLate, io, answer, stopPc >>

(***************************************************************************)
(* The drain goroutine handleMachineStopped starts.                        *)
(***************************************************************************)
\* case <-mach.ModActive: continue
DrainMod(m, c) ==
  /\ mPc[m] = "drain"
  /\ SendsMod(c, m)
  /\ ModSent(c, "drain")
  /\ UNCHANGED << mgrVars, machVars, chIn, chLate, io, answer, stopPc >>

\* case msg := <-mach.Translate: msg.Reply <- ""
DrainTranslate(m, c) ==
  /\ mPc[m] = "drain"
  /\ chMach[c] = m /\ chPc[c] = "translate"
  /\ Translated(c, "")
  /\ UNCHANGED << mgrVars, machVars, chLate, io, chMach, incAt, stopPc >>

\* case <-time.After(5 * time.Second): return.  The timer is set anew in
\* every iteration; a connector that is at a send on this machine's channels
\* gets there well within the five seconds (it has only goroutine start-up
\* or a return between it and the send), one that is dialing, accepting or
\* copying may take any time.
DrainTimeout(m) ==
  /\ mPc[m] = "drain"
  /\ ~ \E c \in Channels : chMach[c] = m /\ chPc[c] \in {"inc", "translate", "dec"}
  /\ mPc' = [mPc EXCEPT ![m] = "dead"]
  /\ UNCHANGED << mgrVars, mTarget, mShared, active, stopBuf, exitBy, counted,
                  chanVars, stopPc, instance, stops >>

(***************************************************************************)
(* The system.                                                             *)
(***************************************************************************)
MgrNext ==
  \/ \E c \in Channels : NewChannel(c)
  \/ \E s \in StopCallers : StopCall(s)
  \/ \E c \in Channels : MgrNewChannel(c)
  \/ \E m \in MachIds : MgrMachStopped(m)
  \/ \E s \in StopCallers : MgrStop(s)
  \/ MgrReply

ConnNext ==
  \/ \E c \in Channels : ConnDial(c)
  \/ \E c \in Channels : ConnAccept(c)
  \/ \E c \in Channels : ConnCopyEnd(c)

ProvNext ==
  \/ \E m \in MachIds : ProvStart(m)
  \/ \E m \in MachIds : ProvErrStop(m)
  \/ \E m \in MachIds : ProvProbe(m)
  \/ \E m \in MachIds, c \in Channels : ProvBoot(m, c)
  \/ \E m \in MachIds, c \in Channels : ProvServiceMod(m, c)
  \/ \E m \in MachIds, c \in Channels : ProvServiceTranslate(m, c)
  \/ \E m \in MachIds : ProvServiceStop(m)
  \/ \E m \in MachIds, c \in Channels : ProvLingerMod(m, c)
  \/ \E m \in MachIds : ProvLingerTimer(m)
  \/ \E m \in MachIds : ProvTeardown(m)

FwdNext ==
  \/ \E m \in MachIds, c \in Channels : FwdMod(m, c)
  \/ \E m \in MachIds, c \in Channels : FwdTranslate(m, c)
  \/ \E m \in MachIds : FwdStop(m)

DrainNext ==
  \/ \E m \in MachIds, c \in Channels : DrainMod(m, c)
  \/ \E m \in MachIds, c \in Channels : DrainTranslate(m, c)
  \/ \E m \in MachIds : DrainTimeout(m)

(***************************************************************************)
(* Target configuration: Factory.NewProvider of the provisioning providers *)
(* and the linger timer their msgLoop arms.  A time.Duration is an int64   *)
(* count of nanoseconds, kept here as its eight bytes, lowest first.       *)
(***************************************************************************)
\* The 64-bit word of a small natural number.
Word(n) == [i \in 1..8 |-> IF i <= 4 THEN (n \div (256 ^ (i - 1))) % 256 ELSE 0]

\* Carries of a byte-wise sum or product; the carry out of byte eight is lost.
RECURSIVE Propagate(_, _, _)
Propagate(raw, k, carry) ==
  IF k > 8 THEN << >>
  ELSE << (raw[k] + carry) % 256 >> \o Propagate(raw, k + 1, (raw[k] + carry) \div 256)

RECURSIVE Conv(_, _, _, _)
Conv(a, b, k, i) ==
  IF i > k THEN 0 ELSE a[i] * b[k + 1 - i] + Conv(a, b, k, i + 1)

\* Go's int64 addition and multiplication (both wrap).
Add64(a, b) == Propagate([k \in 1..8 |-> a[k] + b[k]], 1, 0)

Mul64(a, b) == Propagate([k \in 1..8 |-> Conv(a, b, k, 1)], 1, 0)

Negative(w) == w[8] >= 128

\* time.Millisecond, time.Second, time.Minute.
Millisecond == Word(1000000)

Second == Word(1000000000)

Minute == Mul64(Word(60), Second)

\* The texts of the 'linger' option: strings over a few digits and unit letters.
Chars == {"0", "1", "2", "s", "m"}

Texts == UNION {[1..n -> Chars] : n \in 0..MaxText}

IsDigit(c) == c \in {"0", "1", "2"}

DigitVal(c) == IF c = "0" THEN 0 ELSE IF c = "1" THEN 1 ELSE 2

\* Length of the longest prefix of s of digits (d = TRUE) or of non-digits.
RECURSIVE Run(_, _)
Run(s, d) ==
  IF s = << >> \/ IsDigit(Head(s)) # d THEN 0 ELSE 1 + Run(Tail(s), d)

\* time.leadingInt on a string of digits.
RECURSIVE LeadingInt(_)
LeadingInt(s) ==
  IF s = << >> THEN 0 ELSE 10 * LeadingInt(SubSeq(s, 1, Len(s) - 1)) + DigitVal(s[Len(s)])

\* time.unitMap (the units these texts can spell).
unitMap(u) ==
  IF u = << "s" >> THEN Second
  ELSE IF u = << "m" >> THEN Minute
  ELSE IF u = << "m", "s" >> THEN Millisecond
  ELSE << >>

ParseError == [err |-> TRUE, d |-> Word(0)]

\* The loop of time.ParseDuration: a number, then a unit, until the string ends.
RECURSIVE ParseTerms(_, _)
ParseTerms(s, d) ==
  IF s = << >> THEN [err |-> FALSE, d |-> d]
  ELSE
    LET n == Run(s, TRUE)
        rest == SubSeq(s, n + 1, Len(s))
        u == Run(rest, FALSE)
        unit == unitMap(SubSeq(rest, 1, u))
    IN IF n = 0 \/ u = 0 \/ unit = << >> THEN ParseError
       ELSE ParseTerms(SubSeq(rest, u + 1, Len(rest)),
                       Add64(d, Mul64(Word(LeadingInt(SubSeq(s, 1, n))), unit)))

\* time.ParseDuration.
ParseDuration(s) ==
  IF s = << "0" >> THEN [err |-> FALSE, d |-> Word(0)]
  ELSE IF s = << >> THEN ParseError
  ELSE ParseTerms(s, Word(0))

\* The decoded target blocks: Shared is "nil" when the option is absent, and
\* Linger is the empty string when the option is absent.
Blocks ==
  [kind : {"aws_ec2", "hcloud"}, Shared : {"nil", "true", "false"}, Linger : Texts]
    \cup [kind : {"virtualbox"}, Shared : {"nil"}, Linger : Texts]

NoBlock == [kind |-> "", Shared |-> "nil", Linger |-> << >>]

NoProv == [kind |-> "", Shared |-> FALSE, Linger |-> Word(0)]

LingerError == [Severity |-> "DiagError", Summary |-> "Invalid duration for 'linger' field"]

LingerIgnored == [Severity |-> "DiagWarning", Summary |-> "Field 'linger' was ignored"]

\* prov.Shared: true unless the option says false; virtualbox has no option.
SharedOf(b) == b.kind = "virtualbox" \/ b.Shared # "false"

\* The linger part of NewProvider: the Provider and the diagnostics.
LingerOf(b) ==
  IF SharedOf(b) THEN
    LET r == ParseDuration(b.Linger)
    IN [Linger |-> r.d, diags |-> IF r.err THEN << LingerError >> ELSE << >>]
  ELSE
    [Linger |-> Word(0),
     diags |-> IF b.Linger # << >> THEN << LingerIgnored >> ELSE << >>]

HasErrors(ds) == \E i \in 1..Len(ds) : ds[i].Severity = "DiagError"

\* Factory.NewProvider on the decoded block.
NewProvider ==
  /\ cfgPc = "decoded"
  /\ cfgProv' = [kind |-> parsed.kind, Shared |-> SharedOf(parsed),
                 Linger |-> LingerOf(parsed).Linger]
  /\ diags' = LingerOf(parsed).diags
  /\ cfgPc' = "built"
  /\ UNCHANGED << parsed, lingerTimer >>
  /\ UNCHANGED << providers, mgrPc, stoppingCh, machines, sharedMachines, nextMach,
                  machVars, chanVars, stopPc >>

\* The duration in the linger select: virtualbox scales the field by
\* time.Second, aws_ec2 and hcloud pass it as it is.
ScaledBySecond(p) == Mul64(p.Linger, Second)

LingerArg(p) == IF p.kind = "virtualbox" THEN ScaledBySecond(p) ELSE p.Linger

\* How long a timer armed with d runs: a duration of zero or less fires at once.
Waits(d) == IF Negative(d) THEN Word(0) ELSE d

\* msgLoop arms the linger timer of a provider the configuration accepted.
ArmLinger ==
  /\ cfgPc = "built"
  /\ ~HasErrors(diags)
  /\ lingerTimer' = LingerArg(cfgProv)
  /\ cfgPc' = "lingering"
  /\ UNCHANGED << parsed, cfgProv, diags >>
  /\ UNCHANGED << providers, mgrPc, stoppingCh, machines, sharedMachines, nextMach,
                  machVars, chanVars, stopPc >>

\* The Manager's specifications start from a loaded configuration.
Configured ==
  /\ parsed = NoBlock
  /\ cfgProv = NoProv
  /\ diags = << >>
  /\ lingerTimer = Word(0)
  /\ cfgPc = "run"

InitConfig ==
  /\ InitWith(ConfigVm)
  /\ parsed \in Blocks
  /\ cfgProv = NoProv
  /\ diags = << >>
  /\ lingerTimer = Word(0)
  /\ cfgPc = "decoded"

NextConfig == NewProvider \/ ArmLinger

SpecConfig == InitConfig /\ [][NextConfig]_vars

\* A Manager configured with one shared provisioning target.
Init == InitWith(ConfigVm) /\ Configured

Next == MgrNext \/ ConnNext \/ ProvNext \/ DrainNext

Spec == Init /\ [][Next]_vars

(***************************************************************************)
(* Scheduling.  Goroutines that can run do run, a select takes a branch    *)
(* that stays ready, timers fire and the providers' external calls and the *)
(* connector's Dial and Accept return.  Nothing makes a caller call        *)
(* NewChannel or Stop, and nothing ends a copy: those have no fairness.    *)
(***************************************************************************)
MgrLoop ==
  \/ \E c \in Channels : MgrNewChannel(c)
  \/ \E m \in MachIds : MgrMachStopped(m)
  \/ \E s \in StopCallers : MgrStop(s)
  \/ MgrReply

RunStep(m) ==
  \/ ProvStart(m)
  \/ ProvErrStop(m)
  \/ ProvProbe(m)
  \/ \E c \in Channels : ProvBoot(m, c)
  \/ \E c \in Channels : ProvServiceMod(m, c)
  \/ \E c \in Channels : ProvServiceTranslate(m, c)
  \/ ProvServiceStop(m)
  \/ \E c \in Channels : ProvLingerMod(m, c)
  \/ ProvLingerTimer(m)
  \/ ProvTeardown(m)

DrainStep(m) ==
  \/ \E c \in Channels : DrainMod(m, c)
  \/ \E c \in Channels : DrainTranslate(m, c)
  \/ DrainTimeout(m)

Fairness ==
  /\ WF_vars(MgrLoop)
  /\ \A m \in MachIds : WF_vars(RunStep(m))
  /\ \A m \in MachIds : WF_vars(DrainStep(m))
  /\ \A c \in Channels : WF_vars(ConnDial(c) \/ ConnAccept(c))

FairSpec == Init /\ [][Next]_vars /\ Fairness

(***************************************************************************)
(* One msgLoop on its own, with the connectors counted instead of named:   *)
(* `counted` connectors have had their +1 received and not yet their -1,   *)
(* and any number of further connectors may send a +1.  The loop is that   *)
(* of machine 1 of a Manager whose first channel open has been dispatched  *)
(* and whose provider has started the machine and passed the probe.        *)
(***************************************************************************)
InitMsgLoop ==
  /\ providers = ConfigVm
  /\ mgrPc = "loop"
  /\ stoppingCh = << >>
  /\ machines = {1}
  /\ sharedMachines = [t \in Targets |-> IF t = "vm" THEN 1 ELSE 0]
  /\ nextMach = 1
  /\ mTarget = [m \in MachIds |-> IF m = 1 THEN "vm" ELSE ""]
  /\ mShared = [m \in MachIds |-> m = 1]
  /\ mPc = [m \in MachIds |-> IF m = 1 THEN "boot" ELSE "none"]
  /\ active = [m \in MachIds |-> 0]
  /\ stopBuf = [m \in MachIds |-> 0]
  /\ exitBy = [m \in MachIds |-> "none"]
  /\ counted = [m \in MachIds |-> 0]
  /\ instance = [m \in MachIds |-> IF m = 1 THEN "live" ELSE "none"]
  /\ stops = [m \in MachIds |-> 0]
  /\ chPc = [c \in Channels |-> "idle"]
  /\ chIn = [c \in Channels |-> NoInput]
  /\ chLate = [c \in Channels |-> FALSE]
  /\ chMach = [c \in Channels |-> 0]
  /\ answer = [c \in Channels |-> "none"]
  /\ reply = [c \in Channels |-> "none"]
  /\ incAt = [c \in Channels |-> "none"]
  /\ io = [c \in Channels |-> NoCopy]
  /\ stopPc = [s \in StopCallers |-> "idle"]
  /\ Configured

\* The loop after it received `mod` on ModActive, in whichever of its three
\* receives it is.
LoopAfterMod(pc, a, mod) ==
  CASE pc = "boot"    -> AfterBoot(mod)
    [] pc = "service" -> AfterServiceMod(AddActive(a, mod))
    [] pc = "linger"  -> AfterLingerMod(AddActive(a, mod))

LoopActive(pc, a, mod) == IF pc = "boot" THEN mod ELSE AddActive(a, mod)

LoopRecv(mod) ==
  /\ mPc[1] \in {"boot", "service", "linger"}
  /\ mPc' = [mPc EXCEPT ![1] = LoopAfterMod(mPc[1], active[1], mod)]
  /\ active' = [active EXCEPT ![1] = Local(mPc'[1], LoopActive(mPc[1], @, mod))]
  /\ counted' = [counted EXCEPT ![1] = Local(mPc'[1], @ + mod)]
  /\ exitBy' = IF mPc'[1] = "teardown" THEN [exitBy EXCEPT ![1] = "count"] ELSE exitBy
  /\ UNCHANGED << mgrVars, mTarget, mShared, stopBuf, chanVars, stopPc, instance, stops >>

\* A further connector's incActive is received.
LoopRecvInc == counted[1] < MaxCounted /\ LoopRecv(1)

\* The decActive of one of the counted connectors is received.
LoopRecvDec == counted[1] > 0 /\ LoopRecv(-1)

NextMsgLoop == LoopRecvInc \/ LoopRecvDec \/ ProvLingerTimer(1)

SpecMsgLoop == InitMsgLoop /\ [][NextMsgLoop]_vars

\* A Manager with a forward target.
InitFwd == InitWith(ConfigFwd) /\ Configured

NextFwd == MgrNext \/ ConnNext \/ FwdNext \/ DrainNext

SpecFwd == InitFwd /\ [][NextFwd]_vars

\* A Manager with a shared and an unshared provisioning target.
InitBoth == InitWith(ConfigBoth) /\ Configured

SpecBoth == InitBoth /\ [][Next]_vars

(***************************************************************************)
(* The copy phase of connectChannel: goroutine A runs io.Copy(tcp, ch) and *)
(* then tcp.CloseWrite(); goroutine B runs io.Copy(ch, tcp) and then       *)
(* ch.CloseWrite() and tcp.CloseRead(); wg.Wait() and the deferred         *)
(* ch.Close() follow.  The client and the remote end write and half-close  *)
(* as they like.                                                           *)
(***************************************************************************)
Copying(c) == chPc[c] = "copy"

ClientWrite(c) ==
  /\ Copying(c)
  /\ ~io[c].cliEof /\ io[c].cliSent < MaxData
  /\ io' = [io EXCEPT ![c].cliSent = @ + 1]
  /\ UNCHANGED << mgrVars, machVars, chPc, chIn, chLate, chMach, answer, reply, incAt, stopPc >>

ClientCloseWrite(c) ==
  /\ Copying(c)
  /\ ~io[c].cliEof
  /\ io' = [io EXCEPT ![c].cliEof = TRUE]
  /\ UNCHANGED << mgrVars, machVars, chPc, chIn, chLate, chMach, answer, reply, incAt, stopPc >>

RemoteWrite(c) ==
  /\ Copying(c)
  /\ ~io[c].remEof /\ io[c].remSent < MaxData
  /\ io' = [io EXCEPT ![c].remSent = @ + 1]
  /\ UNCHANGED << mgrVars, machVars, chPc, chIn, chLate, chMach, answer, reply, incAt, stopPc >>

RemoteCloseWrite(c) ==
  /\ Copying(c)
  /\ ~io[c].remEof
  /\ io' = [io EXCEPT ![c].remEof = TRUE]
  /\ UNCHANGED << mgrVars, machVars, chPc, chIn, chLate, chMach, answer, reply, incAt, stopPc >>

\* Goroutine A, one round of io.Copy(tcp, ch): read a chunk from the SSH
\* channel, write it to the TCP connection.
CopyUp(c) ==
  /\ Copying(c)
  /\ ~io[c].aDone /\ io[c].upCopied < io[c].cliSent
  /\ io' = [io EXCEPT ![c].upCopied = @ + 1]
  /\ UNCHANGED << mgrVars, machVars, chPc, chIn, chLate, chMach, answer, reply, incAt, stopPc >>

\* (an end of goroutine A that closes the whole TCP connection)
UpEndClosesAll(r) ==
  [r EXCEPT !.aDone = TRUE, !.tcpW = "closed", !.tcpR = "closed", !.bDone = TRUE]

\* Goroutine A's defers: tcp.CloseWrite(), wg.Done().
UpEnded(r) == [r EXCEPT !.aDone = TRUE, !.tcpW = "closed"]

\* Goroutine A's io.Copy returns: the client's EOF was read, or a read or
\* write failed.
CopyUpEnd(c) ==
  /\ Copying(c)
  /\ ~io[c].aDone
  /\ io' = [io EXCEPT ![c] = UpEnded(@)]
  /\ UNCHANGED << mgrVars, machVars, chPc, chIn, chLate, chMach, answer, reply, incAt, stopPc >>

\* Goroutine B, one round of io.Copy(ch, tcp).
CopyDown(c) ==
  /\ Copying(c)
  /\ ~io[c].bDone /\ io[c].downCopied < io[c].remSent
  /\ io' = [io EXCEPT ![c].downCopied = @ + 1]
  /\ UNCHANGED << mgrVars, machVars, chPc, chIn, chLate, chMach, answer, reply, incAt, stopPc >>

\* Goroutine B's defers: ch.CloseWrite(), tcp.CloseRead(), wg.Done().
DownEnded(r) == [r EXCEPT !.bDone = TRUE, !.chW = "closed", !.tcpR = "closed"]

\* Goroutine B's io.Copy returns.
CopyDownEnd(c) ==
  /\ Copying(c)
  /\ ~io[c].bDone
  /\ io' = [io EXCEPT ![c] = DownEnded(@)]
  /\ UNCHANGED << mgrVars, machVars, chPc, chIn, chLate, chMach, answer, reply, incAt, stopPc >>

\* (a wg.Wait() that returns as soon as one of the two copies has ended)
WaitForOne(c) ==
  /\ Copying(c)
  /\ io[c].aDone \/ io[c].bDone
  /\ io' = [io EXCEPT ![c].chClosed = TRUE]
  /\ chPc' = [chPc EXCEPT ![c] = "dec"]
  /\ UNCHANGED << mgrVars, machVars, chIn, chLate, chMach, answer, reply, incAt, stopPc >>

\* wg.Wait() returns, the deferred ch.Close() runs, then the deferred
\* decActive starts its send.
CopyWait(c) ==
  /\ Copying(c)
  /\ io[c].aDone /\ io[c].bDone
  /\ io' = [io EXCEPT ![c].chClosed = TRUE]
  /\ chPc' = [chPc EXCEPT ![c] = "dec"]
  /\ UNCHANGED << mgrVars, machVars, chIn, chLate, chMach, answer, reply, incAt, stopPc >>

\* One accepted channel on a machine that is serving it.
InitCopy ==
  /\ providers = ConfigVm
  /\ mgrPc = "loop"
  /\ stoppingCh = << >>
  /\ machines = {1}
  /\ sharedMachines = [t \in Targets |-> IF t = "vm" THEN 1 ELSE 0]
  /\ nextMach = 1
  /\ mTarget = [m \in MachIds |-> IF m = 1 THEN "vm" ELSE ""]
  /\ mShared = [m \in MachIds |-> m = 1]
  /\ mPc = [m \in MachIds |-> IF m = 1 THEN "service" ELSE "none"]
  /\ active = [m \in MachIds |-> IF m = 1 THEN 1 ELSE 0]
  /\ stopBuf = [m \in MachIds |-> 0]
  /\ exitBy = [m \in MachIds |-> "none"]
  /\ counted = [m \in MachIds |-> IF m = 1 THEN 1 ELSE 0]
  /\ instance = [m \in MachIds |-> IF m = 1 THEN "live" ELSE "none"]
  /\ stops = [m \in MachIds |-> 0]
  /\ chPc = [c \in Channels |-> IF c = 1 THEN "copy" ELSE "idle"]
  /\ chIn = [c \in Channels |-> NoInput]
  /\ chLate = [c \in Channels |-> FALSE]
  /\ chMach = [c \in Channels |-> IF c = 1 THEN 1 ELSE 0]
  /\ answer = [c \in Channels |-> IF c = 1 THEN "accepted" ELSE "none"]
  /\ reply = [c \in Channels |-> IF c = 1 THEN "host:port" ELSE "none"]
  /\ incAt = [c \in Channels |-> IF c = 1 THEN "run" ELSE "none"]
  /\ io = [c \in Channels |-> NoCopy]
  /\ stopPc = [s \in StopCallers |-> "idle"]
  /\ Configured

NextCopy ==
  \/ \E c \in Channels : ClientWrite(c)
  \/ \E c \in Channels : ClientCloseWrite(c)
  \/ \E c \in Channels : RemoteWrite(c)
  \/ \E c \in Channels : RemoteCloseWrite(c)
  \/ \E c \in Channels : CopyUp(c)
  \/ \E c \in Channels : CopyUpEnd(c)
  \/ \E c \in Channels : CopyDown(c)
  \/ \E c \in Channels : CopyDownEnd(c)
  \/ \E c \in Channels : CopyWait(c)
  \/ \E m \in MachIds, c \in Channels : ProvServiceMod(m, c)

SpecCopy == InitCopy /\ [][NextCopy]_vars

(***************************************************************************)
(* Properties.                                                             *)
(***************************************************************************)
\* The machines in the all-machines set that serve target t as shared ones.
SharedLive(t) == {m \in machines : mTarget[m] = t /\ mShared[m]}

\* The RunMachine calls made so far for target t, and those of them whose
\* machine-stopped event the Manager has processed.
Spawned(t) == {m \in 1..nextMach : mTarget[m] = t}

StoppedProcessed(t) == {m \in Spawned(t) : mPc[m] \in {"drain", "dead"}}

\* A connector that has sent its +1 and not yet its -1.
Counting(c) == chPc[c] \in {"translate", "dial", "accept", "copy", "dec"}

\* C1: for every target of a shared provider, at most one machine of the
\* all-machines set is a shared machine of that target, and it is the one the
\* shared-machines map holds for the target (the map's single entry).
C1_AtMostOneSharedMachine ==
  \A t \in DOMAIN providers :
    IsShared(providers[t]) =>
      /\ Cardinality(SharedLive(t)) <= 1
      /\ SharedLive(t) = IF sharedMachines[t] = 0 THEN {} ELSE {sharedMachines[t]}

\* Two connectors are bound to the same shared machine of the registry.
C1_Witness ==
  \E c1, c2 \in Channels :
    /\ c1 # c2
    /\ chMach[c1] # 0
    /\ chMach[c1] = chMach[c2]
    /\ chMach[c1] \in machines
    /\ mShared[chMach[c1]]

\* C2 as stated: the channel opens of a shared target spawn one provider run
\* goroutine, also when the first machine's run loop returns between two of
\* the opens.
C2_ExactlyOneRunGoroutine ==
  \A t \in DOMAIN providers :
    IsShared(providers[t]) => Cardinality(Spawned(t)) <= 1

\* C2 as amended: the RunMachine calls made for a shared target are one per
\* machine-stopped event processed for it, plus one while the shared map
\* holds an entry: an open spawns a run goroutine only when it is the first
\* or is processed after the machine-stopped event of the previous machine.
C2_OneRunGoroutinePerGeneration ==
  \A t \in DOMAIN providers :
    IsShared(providers[t]) =>
      Cardinality(Spawned(t)) =
        Cardinality(StoppedProcessed(t)) + (IF sharedMachines[t] = 0 THEN 0 ELSE 1)

\* A second run goroutine was spawned for the shared target, after the first
\* machine's stopped event.
C2_Witness ==
  /\ Cardinality(Spawned("vm")) = 2
  /\ Cardinality(StoppedProcessed("vm")) = 1
  /\ sharedMachines["vm"] = 2

\* C3: once the event loop has left its loop, and so whenever a Stop() call
\* has returned or is being replied to, the all-machines set is empty and
\* every run goroutine ever spawned has returned and had its machine-stopped
\* event processed.
C3_StopReturnsAfterDrain ==
  (mgrPc # "loop" \/ \E s \in StopCallers : stopPc[s] = "returned") =>
    /\ machines = {}
    /\ \A m \in 1..nextMach : mPc[m] \in {"drain", "dead"}

\* A Stop() call has returned on a Manager that had started a machine.
C3_Witness ==
  /\ \E s \in StopCallers : stopPc[s] = "returned"
  /\ nextMach >= 1

\* C4: a channel open submitted through NewChannel after a Stop() call has
\* returned is eventually rejected with Prohibited.
C4_LateOpenRejected ==
  \A c \in Channels :
    [](chLate[c] /\ chPc[c] = "submitted"
         => <>(chPc[c] = "done" /\ RejectCode(answer[c]) = "Prohibited"))

\* C5: every call of Stop() eventually returns, and once a stop request has
\* been received the all-machines set eventually becomes empty.
C5_EveryStopCallReturns ==
  /\ \A s \in StopCallers : [](stopPc[s] = "send" => <>(stopPc[s] = "returned"))
  /\ [](stoppingCh # << >> => <>(machines = {}))

\* C6: a caller of Stop() that is blocked handing in its request while the
\* event loop is still running (a concurrent caller) is eventually woken.
C6_ConcurrentStopCallersWoken ==
  \A s \in StopCallers :
    [](stopPc[s] = "send" /\ mgrPc = "loop" /\ (\E r \in StopCallers : r # s /\ stopPc[r] = "send")
         => <>(stopPc[s] = "returned"))

\* C7: a channel-open event the event loop takes after it has received a stop
\* request is rejected with Prohibited whatever it carries, creates no
\* machine and spawns no connector.
C7_RejectedWhileStopping ==
  [][\A c \in Channels :
       (stoppingCh # << >> /\ chPc[c] = "submitted" /\ chPc'[c] # "submitted") =>
         /\ chPc'[c] = "done"
         /\ answer'[c] = "this server is shutting down"
         /\ RejectCode(answer'[c]) = "Prohibited"
         /\ chMach'[c] = 0
         /\ machines' = machines
         /\ sharedMachines' = sharedMachines
         /\ nextMach' = nextMach
         /\ mPc' = mPc]_vars

\* A direct-tcpip open for the configured target was rejected as shutting
\* down.
C7_Witness ==
  \E c \in Channels : chPc[c] = "done" /\ answer[c] = "this server is shutting down"

\* C8: a connector that has sent its +1 ends only by sending its -1, on the
\* machine it sent the +1 to, and has ended once that -1 is sent; a run
\* loop's counter moves only with a connector's +1 or -1.
C8_OneDecPerInc ==
  [][/\ \A c \in Channels :
          /\ (chPc[c] # "done" /\ chPc'[c] = "done" /\ chPc[c] # "submitted")
               => chPc[c] = "dec"
          /\ (Counting(c) /\ chPc'[c] # "done") => (Counting(c))' /\ chMach'[c] = chMach[c]
          /\ chPc[c] = "done" => chPc'[c] = "done"
     /\ \A m \in MachIds :
          (mPc'[m] \in {"service", "linger"} /\ active'[m] # active[m]) =>
            \E c \in Channels :
              /\ chMach[c] = m
              /\ \/ chPc[c] = "inc" /\ chPc'[c] = "translate" /\ active'[m] = active[m] + 1
                 \/ chPc[c] = "dec" /\ chPc'[c] = "done" /\ active'[m] = active[m] - 1]_vars

\* A connector that got the empty reply has sent its -1 and ended, and one
\* whose channel was accepted is at its -1.
C8_Witness ==
  /\ \E c \in Channels : chPc[c] = "done" /\ answer[c] = "service not available"
  /\ \E c \in Channels : chPc[c] = "dec" /\ answer[c] = "accepted"

\* C9: in the service and linger selects the counter is the number of
\* connectors whose +1 the loop has received and whose -1 it has not, and
\* zero when there is none.
C9_CounterIsConnectorCount ==
  \A m \in MachIds : mPc[m] \in {"service", "linger"} => active[m] = counted[m]

\* C10 as stated: a connector whose +1 the linger select received is
\* answered with the resolved address (never with the empty reply).
C10_LingerIncAnswered ==
  \A c \in Channels : incAt[c] = "linger" => reply[c] # ""

\* C10 as amended: a +1 received in the linger select (counter zero) takes
\* the loop back to the service select with counter 1; while that connector
\* waits for its Translate reply the loop leaves the service select only
\* through the Stop branch, and a reply the run loop gives it is the resolved
\* address.
C10_LingerHonoursActivity ==
  [][/\ \A m \in MachIds :
          (mPc[m] = "linger" /\ \E c \in Channels : chMach[c] = m /\ chPc[c] = "inc" /\ chPc'[c] # "inc")
            => active[m] = 0 /\ mPc'[m] = "service" /\ active'[m] = 1
     /\ \A c \in Channels :
          (incAt[c] = "linger" /\ chPc[c] = "translate") =>
            /\ mPc[chMach[c]] = "service" /\ mPc'[chMach[c]] # "service"
                 => stopBuf[chMach[c]] = 1 /\ stopBuf'[chMach[c]] = 0
            /\ (mPc[chMach[c]] = "service" /\ chPc'[c] # "translate")
                 => reply'[c] = ResolvedAddr(chMach[c]) /\ chPc'[c] = "dial"]_vars

\* A connector whose +1 was received in the linger select has its resolved
\* address.
C10_Witness ==
  \E c \in Channels : incAt[c] = "linger" /\ reply[c] = "host:port" /\ chPc[c] = "dial"

\* A step of the run loop of m that consumes the value in its Stop channel
\* and goes to teardown.
LeavesByStop(m) ==
  /\ Next
  /\ stopBuf[m] = 1
  /\ stopBuf'[m] = 0
  /\ mPc'[m] = "teardown"

\* C11: a run loop that is in its linger select while a value is in its Stop
\* channel can leave through a Stop branch to teardown, without the timer
\* and without a further ModActive message.
C11_StopWinsOverLinger ==
  \A m \in MachIds :
    (mPc[m] = "linger" /\ stopBuf[m] = 1) => ENABLED LeavesByStop(m)

\* A connector that has not had its Translate answered and whose machine's
\* run loop has left its message loop.
Orphan(c) ==
  /\ chPc[c] \in {"inc", "translate"}
  /\ mPc[chMach[c]] \in {"errstop", "teardown", "returned", "drain"}

\* C12: a connector whose machine's run loop exits before answering its
\* Translate request gets the empty reply, from the drain goroutine only,
\* rejects its channel with ConnectionFailed, sends its -1 and ends; none
\* stays blocked forever.
C12_OrphanGetsEmptyReply ==
  /\ \A c \in Channels :
       [](Orphan(c) => <>(chPc[c] = "done" /\ answer[c] = "service not available"
                           /\ RejectCode(answer[c]) = "ConnectionFailed"))
  /\ [][\A c \in Channels :
          (Orphan(c) /\ chPc[c] = "translate" /\ chPc'[c] # "translate") =>
            /\ mPc[chMach[c]] = "drain"
            /\ reply'[c] = ""
            /\ answer'[c] = "service not available"
            /\ chPc'[c] = "dec"]_vars

\* A connector dispatched to the shared machine after its run loop returned
\* had its +1 taken by the drain goroutine and got the empty reply.
C12_Witness ==
  \E c \in Channels :
    /\ incAt[c] = "drain"
    /\ reply[c] = ""
    /\ chPc[c] = "dec"
    /\ answer[c] = "service not available"

\* RunMachine has returned for machine m.
Returned(m) == mPc[m] \in {"returned", "drain", "dead"}

\* C13: when RunMachine has returned for a machine whose backing resource was
\* created, stop() was called (the resource is not left live).
C13_NoResourceLeftBehind ==
  \A m \in MachIds :
    Returned(m) => (instance[m] # "live" /\ (instance[m] = "gone" => stops[m] >= 1))

\* C14: RunMachine calls stop() at most once for a machine, on every path;
\* each call is a step of that machine's run goroutine out of one of its two
\* stop positions, and a machine that was stopped has returned.
C14_TeardownAtMostOnce ==
  /\ [](\A m \in MachIds : stops[m] <= 1)
  /\ [][\A m \in MachIds :
          stops'[m] # stops[m] =>
            /\ stops'[m] = stops[m] + 1
            /\ mPc[m] \in {"errstop", "teardown"}
            /\ mPc'[m] = "returned"]_vars

\* The run loop left the linger select by its timer while a value was in the
\* Stop channel, and was torn down once.
C14_Witness ==
  \E m \in MachIds :
    /\ mPc[m] = "returned"
    /\ exitBy[m] = "timer"
    /\ stopBuf[m] = 1
    /\ stops[m] = 1

\* The reject message handleNewChannel's three checks give an event, "" for
\* an event that passes them.
Classified(in) ==
  IF in.ctype # "direct-tcpip" THEN "unsuported channel type"
  ELSE IF ~in.parses THEN "invalid direct-tcpip parameters"
  ELSE IF in.RemoteAddr \notin DOMAIN providers THEN "unknown remote address"
  ELSE ""

\* C15: an event the loop takes while not stopping is rejected with
\* UnknownChannelType when its type is not direct-tcpip, else with Prohibited
\* when its payload does not parse, else with ConnectionFailed when its
\* address is no configured target, and only otherwise bound to a machine;
\* a rejected channel keeps its one answer.
C15_ClassifiedInOrder ==
  [][\A c \in Channels :
       /\ (stoppingCh = << >> /\ chPc[c] = "submitted" /\ chPc'[c] # "submitted") =>
            IF Classified(chIn[c]) # ""
            THEN /\ chPc'[c] = "done"
                 /\ answer'[c] = Classified(chIn[c])
                 /\ RejectCode(answer'[c]) =
                      (IF chIn[c].ctype # "direct-tcpip" THEN "UnknownChannelType"
                       ELSE IF ~chIn[c].parses THEN "Prohibited"
                       ELSE "ConnectionFailed")
                 /\ chMach'[c] = 0
            ELSE /\ chPc'[c] = "inc"
                 /\ answer'[c] = "none"
                 /\ chMach'[c] \in machines'
                 /\ mTarget'[chMach'[c]] = chIn[c].RemoteAddr
       /\ (chPc[c] = "done" => answer'[c] = answer[c])
       /\ (answer[c] # "none" /\ chPc[c] # "done" =>
             answer'[c] = answer[c])]_vars

\* One open was rejected for its payload, another for its address.
C15_Witness ==
  \E c1, c2 \in Channels :
    /\ chPc[c1] = "done" /\ answer[c1] = "invalid direct-tcpip parameters"
    /\ chPc[c2] = "done" /\ answer[c2] = "unknown remote address"

\* A target block of a provisioning provider with  shared = false.
ConfiguredUnshared(t) ==
  /\ t \in DOMAIN providers
  /\ providers[t].kind \in {"aws_ec2", "hcloud"}
  /\ ~providers[t].Shared

\* The machines created so far for such targets.
Unshared == {m \in 1..nextMach : ConfiguredUnshared(mTarget[m])}

\* C16: an open for a target whose provider is not shared, once it passes the
\* checks, creates a new machine with its own run goroutine and is bound to
\* it; such a machine is never in the shared-machines map and no other open
\* is ever bound to it.
C16_UnsharedNeverReused ==
  /\ [](\A t \in DOMAIN providers :
          ConfiguredUnshared(t) =>
            /\ sharedMachines[t] = 0
            /\ \A m \in 1..nextMach : mTarget[m] = t => ~mShared[m])
  /\ [](\A m \in Unshared :
          /\ \A t \in Targets : sharedMachines[t] # m
          /\ Cardinality({c \in Channels : chMach[c] = m}) <= 1)
  /\ [][\A c \in Channels :
          /\ (/\ stoppingCh = << >>
              /\ chPc[c] = "submitted" /\ chPc'[c] # "submitted"
              /\ Classified(chIn[c]) = ""
              /\ ConfiguredUnshared(chIn[c].RemoteAddr)) =>
                /\ nextMach' = nextMach + 1
                /\ chMach'[c] = nextMach'
                /\ mPc'[nextMach'] = "start"
                /\ machines' = machines \cup {nextMach'}
                /\ sharedMachines' = sharedMachines
          /\ \A m \in Unshared : (chMach[c] # m /\ chMach'[c] = m) => FALSE]_vars

\* Two machines of the unshared target have run at the same time and each
\* was stopped once.
C16_Witness ==
  \E m1, m2 \in Unshared :
    /\ m1 # m2
    /\ mTarget[m1] = "solo" /\ mTarget[m2] = "solo"
    /\ mPc[m1] = "returned" /\ mPc[m2] = "returned"
    /\ stops[m1] = 1 /\ stops[m2] = 1
    /\ instance[m1] = "gone" /\ instance[m2] = "gone"

\* C17: the end of the client->remote copy closes the write side of the TCP
\* connection and nothing else, the end of the remote->client copy closes the
\* write side of the SSH channel and the read side of the TCP connection and
\* nothing else; after either end the other direction still copies what is
\* pending and its writer can still write.
C17_HalfClose ==
  /\ [][\A c \in Channels :
          /\ (~io[c].aDone /\ io'[c].aDone) =>
               io'[c] = [io[c] EXCEPT !.aDone = TRUE, !.tcpW = "closed"]
          /\ (~io[c].bDone /\ io'[c].bDone) =>
               io'[c] = [io[c] EXCEPT !.bDone = TRUE, !.chW = "closed", !.tcpR = "closed"]]_vars
  /\ [](\A c \in Channels :
          Copying(c) =>
            /\ (io[c].tcpW = "closed") = io[c].aDone
            /\ (io[c].tcpR = "closed") = io[c].bDone
            /\ (io[c].chW = "closed") = io[c].bDone
            /\ ~io[c].chClosed
            /\ (io[c].aDone /\ ~io[c].bDone /\ io[c].downCopied < io[c].remSent)
                 => ENABLED CopyDown(c)
            /\ (io[c].aDone /\ ~io[c].remEof /\ io[c].remSent < MaxData)
                 => ENABLED RemoteWrite(c)
            /\ (io[c].bDone /\ ~io[c].aDone /\ io[c].upCopied < io[c].cliSent)
                 => ENABLED CopyUp(c)
            /\ (io[c].bDone /\ ~io[c].cliEof /\ io[c].cliSent < MaxData)
                 => ENABLED ClientWrite(c))

\* The client->remote copy has ended on the client's half-close with nothing
\* copied the other way yet, and the remote->client copy has a chunk to copy.
C17_Witness ==
  \E c \in Channels :
    /\ Copying(c)
    /\ io[c].cliEof /\ io[c].aDone /\ io[c].tcpW = "closed"
    /\ ~io[c].bDone /\ io[c].chW = "open" /\ io[c].tcpR = "open"
    /\ io[c].downCopied = 0 /\ io[c].remSent > 0

\* The machines whose run goroutine is the forward provider's.
ForwardMachines == {m \in 1..nextMach : providers[mTarget[m]].kind = "forward"}

\* C18: the forward provider is shared; its run loop provisions and probes
\* nothing, answers a Translate request with its fixed destination and the
\* request's port, leaves the counter alone on ModActive messages, and
\* leaves its loop only by taking the value out of the Stop channel.
C18_ForwardProvider ==
  /\ [](\A t \in DOMAIN providers :
          providers[t].kind = "forward" =>
            /\ IsShared(providers[t])
            /\ Cardinality({m \in machines : mTarget[m] = t}) <= 1)
  /\ [](\A m \in ForwardMachines :
          /\ mPc[m] \in {"forward", "returned", "drain", "dead"}
          /\ mShared[m]
          /\ instance[m] = "none" /\ stops[m] = 0
          /\ active[m] = 0)
  /\ [][\A m \in ForwardMachines :
          /\ (mPc[m] = "forward" /\ mPc'[m] # "forward") =>
               /\ stopBuf[m] = 1 /\ stopBuf'[m] = 0
               /\ mPc'[m] = "returned"
               /\ chPc' = chPc
          /\ \A c \in Channels :
               (mPc[m] = "forward" /\ chMach[c] = m /\ chPc[c] = "translate"
                  /\ chPc'[c] # "translate") =>
                 /\ reply'[c] = "example.com:" \o ToString(MsgPort(c))
                 /\ chPc'[c] = "dial"
                 /\ mPc'[m] = "forward"]_vars

\* Every connector the forward machine served has ended (the -1 of an
\* accepted channel was received) and the run loop is still in its select.
C18_Witness ==
  \E m \in ForwardMachines :
    /\ mPc[m] = "forward"
    /\ stopBuf[m] = 0
    /\ \A c \in Channels : chPc[c] = "done"
    /\ \E c \in Channels : answer[c] = "accepted"

\* RunMachine has returned for m because start or the connectivity test
\* failed (its machine-stopped event is not processed yet).
FailedToServe(m) ==
  mPc[m] = "returned" /\ exitBy[m] \in {"start failed", "probe failed"}

\* C19: when start or the connectivity test of a machine failed, RunMachine
\* returns having answered no Translate request of its connectors, and one
\* teardown was made for the instance the attempted start created.
C19_FailedStartTornDownOnce ==
  \A m \in MachIds :
    FailedToServe(m) =>
      /\ \A c \in Channels : chMach[c] = m => chPc[c] \in {"inc", "translate"}
      /\ instance[m] # "none" => stops[m] = 1

\* C20: with a linger duration of zero a run loop that has entered the
\* linger select (its counter reached zero) never goes back to the service
\* select, also when a connector's +1 is pending.
C20_ZeroLingerExitsAtOnce ==
  [][\A m \in MachIds :
       (mPc[m] = "linger" /\ providers[mTarget[m]].Linger = 0) =>
         mPc'[m] # "service"]_vars

\* C21: a target block without the 'linger' option is accepted and gets a
\* linger of zero: for virtualbox, and for aws_ec2 and hcloud when shared,
\* NewProvider returns no error diagnostic and a Provider with Linger = 0.
C21_AbsentLingerIsZero ==
  (cfgPc # "decoded" /\ cfgPc # "run" /\ parsed.Linger = << >> /\ SharedOf(parsed)) =>
    /\ ~HasErrors(diags)
    /\ cfgProv.Linger = Word(0)

\* C22: the linger timer of a virtualbox target runs for the configured
\* duration, whatever that duration is.
C22_VirtualboxLingerWaitsConfigured ==
  (cfgPc = "lingering" /\ cfgProv.kind = "virtualbox") =>
    Waits(lingerTimer) = cfgProv.Linger

\* C23: every entry t -> m of the shared map is a machine of the
\* all-machines set with target t and the shared flag set, and every shared
\* machine of the all-machines set is the shared-map entry of its target.
C23_SharedMapMatchesMachines ==
  /\ \A t \in Targets :
       sharedMachines[t] # 0 =>
         /\ sharedMachines[t] \in machines
         /\ mTarget[sharedMachines[t]] = t
         /\ mShared[sharedMachines[t]]
  /\ \A m \in machines : mShared[m] => sharedMachines[mTarget[m]] = m

\* An unshared machine is live next to the shared machine of another
\* target, and that shared machine is the entry of its target.
C23_Witness ==
  \E m, u \in machines :
    /\ mShared[m] /\ sharedMachines[mTarget[m]] = m
    /\ ~mShared[u] /\ sharedMachines[mTarget[u]] = 0

\* The run goroutine of machine m is alive: RunMachine is running, or it has
\* returned and the goroutine is in its send on mgr.machStopped.
RunAlive(m) == mPc[m] \notin {"none", "drain", "dead"}

\* The Manager has received the machine-stopped event of m.
EventReceived(m) == mPc[m] \in {"drain", "dead"}

\* C24: every machine's run goroutine sends one machine-stopped event, after
\* RunMachine returned; the event loop runs (with the machine registered) as
\* long as a run goroutine is alive, so the send is eventually received, and
\* no second event of the machine follows.
C24_OneStoppedEventReceived ==
  /\ [](\A m \in MachIds : RunAlive(m) => (mgrPc = "loop" /\ m \in machines))
  /\ [][\A m \in MachIds :
          /\ (EventReceived(m)' /\ ~EventReceived(m)) =>
                (mPc[m] = "returned" /\ m \in machines /\ m \notin machines')
          /\ EventReceived(m) => (EventReceived(m)' /\ m \notin machines')]_vars
  /\ \A m \in MachIds : [](mPc[m] = "returned" => <>EventReceived(m))

\* The event of a machine that left its loop by Stop has been received
\* while a stop request is pending.
C24_Witness ==
  \E m \in MachIds :
    /\ EventReceived(m)
    /\ stops[m] = 1
    /\ stoppingCh # << >>

\* C25: processing the machine-stopped event of m removes m from the
\* all-machines set; if m is shared, the shared-map entry of m's target is m
\* at that moment and is the one entry removed; no entry that points at
\* another machine is removed or changed.
C25_StoppedRemovesOwnEntryOnly ==
  [][\A m \in MachIds :
       (mPc[m] = "returned" /\ mPc'[m] = "drain") =>
         /\ m \in machines /\ machines' = machines \ {m}
         /\ mShared[m] =>
              (sharedMachines[mTarget[m]] = m /\ sharedMachines'[mTarget[m]] = 0)
         /\ \A t \in Targets :
              sharedMachines[t] # m => sharedMachines'[t] = sharedMachines[t]]_vars

\* The event of an earlier shared machine of a target has been processed
\* and a newer machine of the same target is the shared-map entry.
C25_Witness ==
  \E m, n \in MachIds :
    /\ m < n /\ mTarget[m] = mTarget[n]
    /\ mShared[m] /\ EventReceived(m)
    /\ sharedMachines[mTarget[n]] = n

\* The Manager dispatches the open of channel c to a machine in this step.
Dispatched(c) == chPc[c] = "submitted" /\ chPc'[c] = "inc"

\* C26: an open for a shared target dispatched while a machine of the target
\* is registered (its machine-stopped event not processed, whether or not
\* its RunMachine has returned) is bound to that machine and starts nothing;
\* an open dispatched after the event was processed is bound to a fresh
\* machine with empty channels and a new run goroutine, never to a machine
\* whose event was processed.  A connector is never bound a second time.
C26_LateOpenBoundToOldMachine ==
  [][\A c \in Channels :
       /\ Dispatched(c) =>
            LET t == chIn[c].RemoteAddr
                old == {m \in machines : mTarget[m] = t /\ mShared[m]}
                new == chMach'[c]
            IN /\ IsShared(providers[t])
               /\ stoppingCh = << >>
               /\ ~EventReceived(new)
               /\ IF old # {}
                  THEN /\ new \in old
                       /\ nextMach' = nextMach /\ mPc' = mPc
                  ELSE /\ new = nextMach + 1 /\ nextMach' = new
                       /\ mPc[new] = "none" /\ mPc'[new] = "start"
                       /\ stopBuf'[new] = 0
                       /\ \A d \in Channels \ {c} : chMach[d] # new
                       /\ sharedMachines'[t] = new
       /\ chMach[c] # 0 => (chMach'[c] \in {chMach[c], 0} /\ ~Dispatched(c))]_vars

\* The connector of one channel was bound to the machine that has stopped
\* and got the empty reply; a later open of the target got machine 2.
C26_Witness ==
  \E c, d \in Channels :
    /\ answer[c] = "service not available"
    /\ EventReceived(1)
    /\ chMach[d] = 2 /\ mTarget[2] = mTarget[1]

\* The event loop receives a stop request in this step.
StopReceived == Len(stoppingCh') = Len(stoppingCh) + 1

\* C27: the first stop request puts one value into the (empty) Stop channel
\* of every registered machine and of no other; later stop requests put
\* none; a Stop channel never holds more than its capacity, so the send never
\* blocks; and a value stays in the channel until the run loop's service
\* select takes it, wherever the provider was when it was sent.
C27_StopSentOncePerMachine ==
  /\ [](\A m \in MachIds : stopBuf[m] \in {0, 1})
  /\ [](stoppingCh = << >> => \A m \in MachIds : stopBuf[m] = 0)
  /\ [][/\ stoppingCh # << >> => stoppingCh' # << >>
        /\ StopReceived =>
             \A m \in MachIds :
               stopBuf'[m] = IF stoppingCh = << >> /\ m \in machines
                             THEN stopBuf[m] + 1 ELSE stopBuf[m]
        /\ \A m \in MachIds :
             /\ stopBuf'[m] > stopBuf[m] => (StopReceived /\ stoppingCh = << >>)
             /\ stopBuf'[m] < stopBuf[m] =>
                  (mPc[m] = "service" /\ mPc'[m] = "teardown")]_vars

\* Two stop requests have been received and the values of the first are in
\* the Stop channels of two machines: one whose run loop is in its service
\* select and one whose provider is provisioning or probing.
C27_Witness ==
  \E m, n \in machines :
    /\ Len(stoppingCh) = 2
    /\ stopBuf[m] = 1 /\ mPc[m] = "service"
    /\ stopBuf[n] = 1 /\ mPc[n] \in {"start", "probe"}

\* C28: a run loop that takes the Stop branch of its service select goes to
\* teardown in that step, whatever its counter; from there it makes its one
\* teardown and returns, never enters the service or linger select again,
\* and the only non-empty Translate replies are those of a service select
\* that stays in service.
C28_StopLeavesLoopAtOnce ==
  [][\A m \in MachIds :
       /\ (mPc[m] = "service" /\ stopBuf'[m] < stopBuf[m]) =>
            (mPc'[m] = "teardown" /\ exitBy'[m] = "stop")
       /\ (mPc[m] = "teardown" /\ exitBy[m] = "stop") =>
            /\ mPc'[m] \in {"teardown", "returned"}
            /\ mPc'[m] = "returned" =>
                 (stops'[m] = stops[m] + 1 /\ instance'[m] = "gone")
       /\ Returned(m) => mPc'[m] \in {"returned", "drain", "dead"}
       /\ \A c \in Channels :
            (chMach[c] = m /\ chPc[c] = "translate" /\ chPc'[c] = "dial") =>
              (mPc[m] = "service" /\ mPc'[m] = "service")]_vars

\* The run loop left by Stop while a connector it had counted is still
\* between its +1 and its -1 (the counter was positive).
C28_Witness ==
  \E m \in MachIds, c \in Channels :
    /\ mPc[m] = "teardown" /\ exitBy[m] = "stop"
    /\ chMach[c] = m /\ incAt[c] = "run"
    /\ chPc[c] \in {"translate", "dial", "accept", "copy"}

\* The provider of m has not yet passed start and the connectivity test.
Provisioning(m) == mPc[m] \in {"none", "start", "errstop", "probe"}

\* C29: a provisioning provider reaches its message loop only through a
\* successful start and then a successful connectivity test; a non-empty
\* Translate reply is sent only by the service select of a machine that is
\* up, so a connector that dials is bound to a machine that passed the probe.
C29_NoReplyBeforeProbe ==
  /\ [](\A c \in Channels :
          chPc[c] \in {"dial", "accept", "copy"} =>
            /\ reply[c] # ""
            /\ ~Provisioning(chMach[c])
            /\ instance[chMach[c]] # "none")
  /\ [][/\ \A m \in MachIds :
             /\ (mPc'[m] = "probe" /\ mPc[m] # "probe") =>
                  (mPc[m] = "start" /\ instance'[m] = "live")
             /\ (mPc'[m] = "boot" /\ mPc[m] # "boot") => mPc[m] = "probe"
             /\ (mPc'[m] = "service" /\ mPc[m] # "service") =>
                  mPc[m] \in {"boot", "linger"}
             /\ (mPc'[m] = "linger" /\ mPc[m] # "linger") => mPc[m] = "service"
        /\ \A c \in Channels :
             (reply'[c] # reply[c] /\ reply'[c] \notin {"", "none"}) =>
               /\ mPc[chMach[c]] = "service"
               /\ instance[chMach[c]] = "live"
               /\ exitBy[chMach[c]] = "none"]_vars

\* One connector dials the address it was given while another is held in
\* incActive by a machine that is still provisioning.
C29_Witness ==
  /\ \E c \in Channels : chPc[c] = "dial" /\ reply[c] = "host:port"
  /\ \E c \in Channels : chPc[c] = "inc" /\ Provisioning(chMach[c])

\* C30: once the drain goroutine of a machine has ended, no connector is
\* still bound to the machine (none has a send on its ModActive channel
\* ahead of it or under way).
C30_NoConnectorAfterDrain ==
  \A c \in Channels : chMach[c] # 0 => mPc[chMach[c]] # "dead"

\* C31: in a connector whose channel was accepted, the full close of the SSH
\* channel happens only when both copy goroutines have ended, the connector
\* leaves the copy phase only with the channel closed, and its -1 is sent
\* only after that close.
C31_CloseThenDecAfterBothCopies ==
  [][\A c \in Channels :
       /\ (io'[c].chClosed /\ ~io[c].chClosed) => (io[c].aDone /\ io[c].bDone)
       /\ (chPc[c] = "copy" /\ chPc'[c] # "copy") =>
            /\ io[c].aDone /\ io[c].bDone
            /\ io'[c].chClosed
            /\ chPc'[c] = "dec"
       /\ (answer[c] = "accepted" /\ chPc[c] = "dec" /\ chPc'[c] = "done") =>
            (io[c].aDone /\ io[c].bDone /\ io[c].chClosed)]_vars

\* The -1 of an accepted channel has been sent, after both copies ended and
\* the channel was closed.
C31_Witness ==
  \E c \in Channels :
    /\ answer[c] = "accepted" /\ chPc[c] = "done"
    /\ io[c].aDone /\ io[c].bDone /\ io[c].chClosed

\* The channel of connector c has been accepted or rejected.
Decided(c) == answer[c] = "accepted" \/ RejectCode(answer[c]) # "none"

\* The steps of a connector, in their order: +1, Translate request and
\* reply, dial, Accept, copy, -1.  The channel is decided at most once; it
\* is accepted only by the Accept that follows a non-empty reply and a
\* successful dial, and a dial error rejects it with ConnectionFailed before
\* the -1 is sent.
ConnectorSteps ==
  \A c \in Channels :
    /\ (chPc[c] = "inc" /\ chPc'[c] # "inc") => chPc'[c] = "translate"
    /\ (chPc[c] = "translate" /\ chPc'[c] # "translate") =>
         \/ chPc'[c] = "dial" /\ reply'[c] \notin {"", "none"} /\ answer'[c] = "none"
         \/ chPc'[c] = "dec" /\ reply'[c] = "" /\ answer'[c] = "service not available"
    /\ (chPc[c] = "dial" /\ chPc'[c] # "dial") =>
         \/ chPc'[c] = "accept" /\ answer'[c] = "none"
         \/ /\ chPc'[c] = "dec" /\ answer'[c] = "dial error"
            /\ RejectCode(answer'[c]) = "ConnectionFailed"
    /\ (chPc[c] = "accept" /\ chPc'[c] # "accept") =>
         \/ chPc'[c] = "copy" /\ answer'[c] = "accepted" /\ reply[c] \notin {"", "none"}
         \/ chPc'[c] = "dec" /\ answer'[c] = "accept error"
    /\ (chPc[c] = "copy" /\ chPc'[c] # "copy") => chPc'[c] = "dec"
    /\ (chPc[c] = "dec" /\ chPc'[c] # "dec") => chPc'[c] = "done"
    /\ answer[c] # "none" => answer'[c] = answer[c]
    /\ (answer'[c] = "accepted" /\ answer[c] # "accepted") => chPc[c] = "accept"

\* C32 as stated: the connector's steps are in order and every connector
\* that has reached its -1 has rejected or accepted its channel.
C32_EveryChannelDecidedOnce ==
  /\ [][ConnectorSteps]_vars
  /\ [](\A c \in Channels : chPc[c] = "dec" => Decided(c))

\* C32 as amended: the connector's steps are in order and every connector
\* that has reached its -1 has rejected or accepted its channel, or its
\* Accept has failed (the channel is then neither accepted nor rejected).
C32_DecidedUnlessAcceptFails ==
  /\ [][ConnectorSteps]_vars
  /\ [](\A c \in Channels :
          chPc[c] = "dec" => (Decided(c) \/ answer[c] = "accept error"))

\* One connector has rejected its channel on a dial error and sent its -1,
\* another has accepted its channel.
C32_Witness ==
  \E c, d \in Channels :
    /\ chPc[c] = "done" /\ answer[c] = "dial error"
    /\ chPc[d] = "copy" /\ answer[d] = "accepted"

\* C33: the counter of a run loop in its message loop is never negative,
\* and the loop stays in its service select while connectors it has counted
\* have not sent their -1, for any number of them.
C33_CounterNeverNegative ==
  \A m \in MachIds :
    mPc[m] \in {"service", "linger"} =>
      /\ active[m] >= 0
      /\ counted[m] > 0 => mPc[m] = "service"

\* C34: the port of a connector's Translate request is the remote port of
\* its channel open, and the forward provider's reply names that port, for
\* every value of the remote port.
C34_PortCarriedUnchanged ==
  [][\A c \in Channels :
       (chPc[c] = "translate" /\ chPc'[c] = "dial") =>
         /\ MsgPort(c) = chIn[c].RemotePort
         /\ reply'[c] = FwdAddr(providers[mTarget[chMach[c]]], chIn[c].RemotePort)]_vars

\* The run goroutine of m is inside msgLoop.
InLoop(m) == mPc[m] \in {"boot", "service", "linger"}

\* C35: with fewer than 128 connectors, a run loop leaves its message loop
\* only through the Stop branch of the service select or through the linger
\* timer, and the timer finds the counter at zero with no connector of the
\* machine between its received +1 and its -1; the linger select is entered
\* only from the service select with the counter at zero.
C35_LoopExitOnlyByStopOrTimer ==
  [][\A m \in MachIds :
       /\ (InLoop(m) /\ ~InLoop(m)') =>
            /\ mPc'[m] = "teardown"
            /\ \/ mPc[m] = "service" /\ stopBuf'[m] = stopBuf[m] - 1
               \/ /\ mPc[m] = "linger" /\ exitBy'[m] = "timer"
                  /\ active[m] = 0 /\ counted[m] = 0
                  /\ chPc' = chPc
                  /\ \A c \in Channels : chMach[c] = m => ~Counting(c)
       /\ (mPc'[m] = "linger" /\ mPc[m] # "linger") =>
            /\ mPc[m] = "service"
            /\ active'[m] = 0 /\ counted'[m] = 0
            /\ \A c \in Channels : chMach'[c] = m => ~Counting(c)']_vars

\* The linger timer has ended a run loop whose connectors have all sent
\* their -1.
C35_Witness ==
  \E m \in MachIds :
    /\ mPc[m] = "teardown" /\ exitBy[m] = "timer"
    /\ \E c \in Channels : chPc[c] = "done" /\ answer[c] = "accepted"

\* The event of channel c is one the loop has to reject: a stop request was
\* received, or the event fails one of handleNewChannel's checks.
ToReject(c) == stoppingCh # << >> \/ Classified(chIn[c]) # ""

\* C36: the step in which the loop takes an event it has to reject answers
\* the channel with the rejection, ends there for the channel (no connector,
\* no machine bound), and changes neither the all-machines set, the shared
\* map, the machines' goroutines nor the contents of any machine channel.
C36_RejectionChangesNothing ==
  [][\A c \in Channels :
       (chPc[c] = "submitted" /\ chPc'[c] # "submitted" /\ ToReject(c)) =>
         /\ RejectCode(answer'[c]) # "none"
         /\ chPc'[c] = "done" /\ chMach'[c] = 0
         /\ \A d \in Channels \ {c} : chPc'[d] = chPc[d] /\ chMach'[d] = chMach[d]
         /\ machines' = machines /\ sharedMachines' = sharedMachines
         /\ nextMach' = nextMach /\ mPc' = mPc
         /\ stopBuf' = stopBuf /\ active' = active /\ counted' = counted
         /\ reply' = reply]_vars

\* A channel open was rejected while a machine is registered and running.
C36_Witness ==
  \E c \in Channels, m \in machines :
    /\ chPc[c] = "done" /\ chMach[c] = 0
    /\ answer[c] \in {"unsuported channel type", "invalid direct-tcpip parameters",
                      "unknown remote address", "this server is shutting down"}
    /\ mPc[m] = "service"

\* The drain goroutine of m is receiving.
Draining(m) == mPc[m] = "drain"

\* C37: a machine's ModActive and Translate channels have one receiver at a
\* time: the run loop while the machine is registered and RunMachine is in
\* msgLoop, the drain goroutine once RunMachine has returned and the
\* machine-stopped event has been processed.  Every message is received by
\* the one that is the receiver then, so the drain goroutine takes nothing
\* while the run loop is alive.
C37_OneReceiverPerMachine ==
  /\ [](\A m \in MachIds :
          /\ InLoop(m) => (m \in machines /\ ~Draining(m))
          /\ Draining(m) => (m \notin machines /\ Returned(m)))
  /\ [][\A m \in MachIds :
          /\ (Draining(m)' /\ ~Draining(m)) =>
               (mPc[m] = "returned" /\ m \in machines /\ m \notin machines')
          /\ \A c \in Channels :
               /\ (chMach[c] = m /\ chPc[c] = "inc" /\ chPc'[c] # "inc") =>
                    IF Draining(m)
                    THEN incAt'[c] = "drain" /\ counted' = counted /\ active' = active
                    ELSE InLoop(m) /\ incAt'[c] \in {"run", "linger"}
               /\ (chMach[c] = m /\ chPc[c] = "dec" /\ chPc'[c] # "dec") =>
                    IF Draining(m)
                    THEN counted' = counted /\ active' = active
                    ELSE InLoop(m)
               /\ (chMach[c] = m /\ chPc[c] = "translate" /\ chPc'[c] # "translate") =>
                    IF Draining(m)
                    THEN reply'[c] = ""
                    ELSE mPc[m] = "service" /\ reply'[c] = ResolvedAddr(m)]_vars

\* The run loop served one connector of the machine and, after RunMachine
\* returned, the drain goroutine received the +1 of another.
C37_Witness ==
  \E c, d \in Channels :
    /\ answer[c] = "accepted" /\ chPc[c] = "done"
    /\ incAt[d] = "drain" /\ Draining(chMach[d])

\* C38: the all-machines set holds exactly the machines that were created
\* and whose machine-stopped event has not been processed.  It is empty at
\* startup, grows only by the new machine of a channel open dispatched
\* while no stop request was received, loses a machine only in the step
\* that processes that machine's stopped event, and only shrinks once a
\* stop request was received.
C38_MachineSetMembership ==
  /\ [](nextMach = 0 => machines = {})
  /\ [](\A m \in MachIds : m \in machines <=> RunAlive(m))
  /\ [][/\ \A m \in MachIds :
             /\ (m \in machines' /\ m \notin machines) =>
                  /\ mgrPc = "loop" /\ stoppingCh = << >>
                  /\ mPc[m] = "none" /\ m = nextMach + 1
                  /\ machines' = machines \cup {m}
                  /\ \E c \in Channels : Dispatched(c) /\ chMach'[c] = m
             /\ (m \in machines /\ m \notin machines') =>
                  /\ mgrPc = "loop"
                  /\ mPc[m] = "returned" /\ mPc'[m] = "drain"
                  /\ machines' = machines \ {m}
        /\ stoppingCh # << >> => machines' \subseteq machines]_vars

\* Two machines were created, a stop request was received and the events
\* of both machines have been processed: the set is empty again.
C38_Witness ==
  /\ nextMach >= 2
  /\ stoppingCh # << >>
  /\ machines = {}

\* C39: a run loop at its first receive on ModActive has a connector of its
\* machine blocked in incActive and none in decActive, so the receive ends,
\* the value it gets is +1 and the loop goes on to the service select with
\* a counter of one, also with a value waiting in the Stop channel.
C39_FirstReceiveGetsInc ==
  /\ [](\A m \in MachIds :
          mPc[m] = "boot" =>
            /\ \E c \in Channels : chMach[c] = m /\ chPc[c] = "inc"
            /\ \A c \in Channels : chMach[c] = m => chPc[c] = "inc")
  /\ [][\A m \in MachIds :
          (mPc[m] = "boot" /\ mPc'[m] # "boot") =>
            /\ mPc'[m] = "service" /\ active'[m] = 1
            /\ stopBuf'[m] = stopBuf[m]
            /\ \E c \in Channels :
                 chMach[c] = m /\ chPc[c] = "inc" /\ chPc'[c] = "translate"]_vars
  /\ \A m \in MachIds : [](mPc[m] = "boot" => <>(mPc[m] = "service"))

\* A run loop is at its first receive with the value of a stop request
\* (made while the provider provisioned or probed) in its Stop channel.
C39_Witness ==
  \E m \in MachIds :
    /\ mPc[m] = "boot"
    /\ stopBuf[m] = 1

=============================================================================
